---- MODULE Spec2Model ----
(***************************************************************************)
(* Recipe selection and configuration resolution of the AIM engine         *)
(* (aim_recipe_selector.py), synthesis of the deployment configuration     *)
(* (aim_config_generator.py) and the launch flow that joins them           *)
(* (aim_launcher.py), with the managers the launch flow drives             *)
(* (aim_docker_manager.py, aim_endpoint_manager.py, aim_cache_manager.py)  *)
(* and the command converter (aim_generate_command.py).  The catalog       *)
(* directories (models/*.yaml and recipes/*.yaml), the external tools and  *)
(* the clock are the environment.                                          *)
(***************************************************************************)
EXTENDS Integers, Sequences, FiniteSets, TLC

VARIABLES models,        \* self.models: huggingface_id -> model record
          recipe_files,  \* recipes/*.yaml in the order glob() yields them
          pc,            \* position of the call in progress, "idle" between calls
          request,       \* arguments of the call in progress / last call
          probe,         \* GPU counts probed by the call
          candidate,     \* actual_gpu_count / actual_precision before matching
          result,        \* value returned by the call
          attempted,     \* (precision, gpu_count) pairs handed to find_matching_recipes
          deployment,    \* what generate_config / launch_model came to
          clock,         \* time.time(), in seconds since the call in progress began
          wait,          \* the readiness polling loop of the call in progress
          docker,        \* launch_container: the docker commands issued, the dict returned
          endpoints,     \* AIMEndpointManager.endpoints: container_id -> endpoint_info
          endpoint_call, \* the endpoint manager's call in progress / last call
          cache,         \* AIMCacheManager: cache_index, the directories under
                         \* cache_dir/models, and the call in progress / last call
          engine         \* what AIMEngine.__init__ met and what it left behind

\* the state of the managers, which the selector and the generator leave alone
managers == <<clock, wait, docker, endpoints, endpoint_call, cache, engine>>

\* the state of the selector and the launch flow, which the managers leave alone
selector_state == <<models, recipe_files, request, probe, candidate, result, attempted, deployment>>

vars == <<models, recipe_files, pc, request, probe, candidate, result, attempted, deployment, clock, wait, docker, endpoints, endpoint_call, cache, engine>>

----------------------------------------------------------------------------
(* Bounds *)

\* largest GPU count any probe method reports
MaxVisibleGpus == 8
\* largest number of recipe files of the recipes directory
MaxRecipeFiles == 2
\* largest number of entries of a slot's `args`
MaxArgs == 2

----------------------------------------------------------------------------
(* Values *)

\* Python None, for a recipe / configuration
None == [none |-> TRUE]
\* Python None, for the optional customer_gpu_count
NoneGpu == -1
\* Python None, for the optional customer_precision
NonePrecision == "None"
\* size of a model absent from self.models
UnknownSize == "unknown"

KnownModel == "Org/Model"
OtherModel == "Other/Model"

Backends == {"vllm", "sglang"}

\* supported_gpu_counts of get_optimal_configuration, both ladders
supported_gpu_counts == <<8, 4, 2, 1>>
\* precision order of both fallbacks
alt_precisions == <<"bf16", "fp16", "fp8">>
\* GPU count order of select_best_recipe's own fallback
alt_gpu_counts == <<1, 2, 4, 8>>

Range(s) == {s[i] : i \in 1..Len(s)}

----------------------------------------------------------------------------
(* Catalog records *)

\* a slot `<backend>_serve.<N>_gpu` of a recipe; args identifies the slot
Slot(rid, b, g, en) == [enabled |-> en, args |-> <<rid, b, g>>]
\* a slot written without an `enabled` field
BareSlot(rid, b, g) == [args |-> <<rid, b, g>>]

\* `<backend>_serve` with the GPU keys of en enabled, those of dis disabled
\* and those of bare written without an `enabled` field
Serve(rid, b, en, dis, bare) ==
    [g \in en \cup dis \cup bare |->
        IF g \in bare THEN BareSlot(rid, b, g) ELSE Slot(rid, b, g, g \in en)]

\* one recipe file; serve maps the backends that have a `<backend>_serve` key
RecipeFile(rid, hf, p, serve) ==
    [recipe_id |-> rid, huggingface_id |-> hf, precision |-> p, serve |-> serve]

----------------------------------------------------------------------------
(* AIMRecipeSelector: catalog access *)

\* model_info.get('size', 'unknown') of self.models.get(model_id, {})
model_size(mods, model_id) ==
    IF model_id \in DOMAIN mods THEN mods[model_id].size ELSE UnknownSize

\* model_recipes[recipe['recipe_id']] = recipe on a dict kept as the sequence
\* of its values in key insertion order
dict_put(d, recipe) ==
    IF \E i \in 1..Len(d) : d[i].recipe_id = recipe.recipe_id
    THEN [i \in 1..Len(d) |->
            IF d[i].recipe_id = recipe.recipe_id THEN recipe ELSE d[i]]
    ELSE Append(d, recipe)

RECURSIVE load_loop(_, _, _, _)
load_loop(files, model_id, i, d) ==
    IF i > Len(files) THEN d
    ELSE load_loop(files, model_id, i + 1,
                   IF files[i].huggingface_id = model_id
                   THEN dict_put(d, files[i]) ELSE d)

\* _load_model_recipes that keeps the recipes of every model
load_all_recipes(files, model_id) == files

\* _load_model_recipes: the recipes of model_id, in dict order
load_model_recipes(files, model_id) == load_loop(files, model_id, 1, <<>>)

\* slot_enabled that takes a slot for enabled whatever its flag says
slot_enabled_any(slot) == TRUE

\* recipe[backend_key][gpu_key].get('enabled', False)
slot_enabled(slot) == "enabled" \in DOMAIN slot /\ slot.enabled

\* recipe_matches without the test of the precision
recipe_matches_any_precision(recipe, gpu_count, precision, backend) ==
    /\ backend \in DOMAIN recipe.serve
    /\ gpu_count \in DOMAIN recipe.serve[backend]
    /\ slot_enabled(recipe.serve[backend][gpu_count])

\* the four tests of the loop body of find_matching_recipes
recipe_matches(recipe, gpu_count, precision, backend) ==
    /\ recipe.precision = precision
    /\ backend \in DOMAIN recipe.serve
    /\ gpu_count \in DOMAIN recipe.serve[backend]
    /\ slot_enabled(recipe.serve[backend][gpu_count])

find_matching_recipes(files, model_id, gpu_count, precision, backend) ==
    SelectSeq(load_model_recipes(files, model_id),
              LAMBDA r : recipe_matches(r, gpu_count, precision, backend))

\* get_recipe_config without the test of the slot's `enabled`
get_recipe_config_unchecked(recipe, gpu_count, backend) ==
    IF backend \notin DOMAIN recipe.serve THEN None
    ELSE IF gpu_count \notin DOMAIN recipe.serve[backend] THEN None
    ELSE recipe.serve[backend][gpu_count]

get_recipe_config(recipe, gpu_count, backend) ==
    IF backend \notin DOMAIN recipe.serve THEN None
    ELSE IF gpu_count \notin DOMAIN recipe.serve[backend] THEN None
    ELSE IF ~slot_enabled(recipe.serve[backend][gpu_count]) THEN None
    ELSE recipe.serve[backend][gpu_count]

----------------------------------------------------------------------------
(* AIMRecipeSelector: heuristics *)

\* get_optimal_gpu_count without the clamp of the customer's count
get_optimal_gpu_count_unclamped(mods, model_id, available_gpus, customer_gpu_count) ==
    IF customer_gpu_count # NoneGpu
    THEN customer_gpu_count
    ELSE LET avail == IF available_gpus < 1 THEN 1 ELSE available_gpus
             size  == model_size(mods, model_id)
         IN  IF size \in {"7B", "8B"} /\ avail >= 1 THEN 1
             ELSE IF size \in {"13B", "14B"} /\ avail >= 2 THEN 2
             ELSE IF size \in {"32B", "34B"} /\ avail >= 4 THEN 4
             ELSE IF size \in {"70B", "72B"} /\ avail >= 8 THEN 8
             ELSE avail

\* get_optimal_gpu_count that gives a 32B/34B model 4 GPUs from 2 visible on
get_optimal_gpu_count_eager(mods, model_id, available_gpus, customer_gpu_count) ==
    IF customer_gpu_count # NoneGpu
    THEN IF customer_gpu_count > available_gpus
         THEN available_gpus ELSE customer_gpu_count
    ELSE LET avail == IF available_gpus < 1 THEN 1 ELSE available_gpus
             size  == model_size(mods, model_id)
         IN  IF size \in {"7B", "8B"} /\ avail >= 1 THEN 1
             ELSE IF size \in {"13B", "14B"} /\ avail >= 2 THEN 2
             ELSE IF size \in {"32B", "34B"} /\ avail >= 2 THEN 4
             ELSE IF size \in {"70B", "72B"} /\ avail >= 8 THEN 8
             ELSE avail

\* get_optimal_gpu_count that clamps an excessive customer count to one GPU
get_optimal_gpu_count_single(mods, model_id, available_gpus, customer_gpu_count) ==
    IF customer_gpu_count # NoneGpu
    THEN IF customer_gpu_count > available_gpus
         THEN 1 ELSE customer_gpu_count
    ELSE LET avail == IF available_gpus < 1 THEN 1 ELSE available_gpus
             size  == model_size(mods, model_id)
         IN  IF size \in {"7B", "8B"} /\ avail >= 1 THEN 1
             ELSE IF size \in {"13B", "14B"} /\ avail >= 2 THEN 2
             ELSE IF size \in {"32B", "34B"} /\ avail >= 4 THEN 4
             ELSE IF size \in {"70B", "72B"} /\ avail >= 8 THEN 8
             ELSE avail

get_optimal_gpu_count(mods, model_id, available_gpus, customer_gpu_count) ==
    IF customer_gpu_count # NoneGpu
    THEN IF customer_gpu_count > available_gpus
         THEN available_gpus ELSE customer_gpu_count
    ELSE LET avail == IF available_gpus < 1 THEN 1 ELSE available_gpus
             size  == model_size(mods, model_id)
         IN  IF size \in {"7B", "8B"} /\ avail >= 1 THEN 1
             ELSE IF size \in {"13B", "14B"} /\ avail >= 2 THEN 2
             ELSE IF size \in {"32B", "34B"} /\ avail >= 4 THEN 4
             ELSE IF size \in {"70B", "72B"} /\ avail >= 8 THEN 8
             ELSE avail

\* select_best_precision that gives fp16 to every model that is not large
select_best_precision_fp16(mods, model_id, customer_precision) ==
    IF customer_precision \notin {NonePrecision, ""}
    THEN customer_precision
    ELSE LET size == model_size(mods, model_id)
         IN  IF size \in {"7B", "8B"} THEN "fp16"
             ELSE IF size \in {"13B", "14B"} THEN "fp16"
             ELSE "bf16"

select_best_precision(mods, model_id, customer_precision) ==
    IF customer_precision \notin {NonePrecision, ""}
    THEN customer_precision
    ELSE LET size == model_size(mods, model_id)
         IN  IF size \in {"7B", "8B"} THEN "fp16"
             ELSE IF size \in {"13B", "14B"} THEN "bf16"
             ELSE "bf16"

----------------------------------------------------------------------------
(* AIMRecipeSelector.select_best_recipe                                    *)
(* A search returns [recipe, tried]: the recipe found (or None) and the    *)
(* (precision, gpu_count) pairs handed to find_matching_recipes so far.    *)
(* A value used more than once is passed on as an argument.                *)

\* `recipes[0]` under `if recipes`, None otherwise
first_or_none(recipes) == IF recipes # <<>> THEN recipes[1] ELSE None

\* the search ends here when found holds a recipe, else it goes on
or_else(found, otherwise) == IF found.recipe # None THEN found ELSE otherwise

\* for alt_precision in ['bf16', 'fp16', 'fp8']
RECURSIVE alt_precision_loop(_, _, _, _, _, _, _)
alt_precision_loop(files, model_id, gpu_count, precision, backend, i, tried) ==
    IF i > Len(alt_precisions) THEN [recipe |-> None, tried |-> tried]
    ELSE IF alt_precisions[i] # precision
    THEN or_else([recipe |-> first_or_none(find_matching_recipes(
                                 files, model_id, gpu_count, alt_precisions[i], backend)),
                  tried |-> Append(tried, <<alt_precisions[i], gpu_count>>)],
                 alt_precision_loop(files, model_id, gpu_count, precision, backend, i + 1,
                                    Append(tried, <<alt_precisions[i], gpu_count>>)))
    ELSE alt_precision_loop(files, model_id, gpu_count, precision, backend, i + 1, tried)

\* for alt_gpu_count in [1, 2, 4, 8]
RECURSIVE alt_gpu_loop(_, _, _, _, _, _, _, _)
alt_gpu_loop(files, model_id, gpu_count, available_gpus, precision, backend, i, tried) ==
    IF i > Len(alt_gpu_counts) THEN [recipe |-> None, tried |-> tried]
    ELSE IF alt_gpu_counts[i] # gpu_count /\ alt_gpu_counts[i] <= available_gpus
    THEN or_else([recipe |-> first_or_none(find_matching_recipes(
                                 files, model_id, alt_gpu_counts[i], precision, backend)),
                  tried |-> Append(tried, <<precision, alt_gpu_counts[i]>>)],
                 alt_gpu_loop(files, model_id, gpu_count, available_gpus, precision,
                              backend, i + 1,
                              Append(tried, <<precision, alt_gpu_counts[i]>>)))
    ELSE alt_gpu_loop(files, model_id, gpu_count, available_gpus, precision, backend,
                      i + 1, tried)

\* "Try different GPU counts", entered when no alternative precision matched
try_gpu_counts(by_precision, files, model_id, gpu_count, available_gpus, precision, backend) ==
    IF by_precision.recipe # None THEN by_precision
    ELSE alt_gpu_loop(files, model_id, gpu_count, available_gpus, precision, backend,
                      1, by_precision.tried)

\* steps 3 and 4 for the chosen optimal_gpu_count and optimal_precision
match_or_alternative(files, model_id, optimal_gpu_count, available_gpus, optimal_precision, backend, tried) ==
    or_else([recipe |-> first_or_none(find_matching_recipes(
                            files, model_id, optimal_gpu_count, optimal_precision, backend)),
             tried |-> Append(tried, <<optimal_precision, optimal_gpu_count>>)],
            try_gpu_counts(
                alt_precision_loop(files, model_id, optimal_gpu_count, optimal_precision,
                                   backend, 1,
                                   Append(tried, <<optimal_precision, optimal_gpu_count>>)),
                files, model_id, optimal_gpu_count, available_gpus, optimal_precision,
                backend))

\* host_gpus is what _detect_available_gpus returns when gpu_count is None;
\* tried holds the pairs tried before this call
select_best_recipe(files, mods, model_id, gpu_count, precision, backend, host_gpus, tried) ==
    match_or_alternative(
        files, model_id,
        IF gpu_count # NoneGpu THEN gpu_count
        ELSE get_optimal_gpu_count(mods, model_id, host_gpus, gpu_count),
        IF gpu_count # NoneGpu THEN gpu_count ELSE host_gpus,
        select_best_precision(mods, model_id, precision),
        backend, tried)

\* select_recipe: "alias for select_best_recipe"
select_recipe(files, mods, model_id, gpu_count, precision, backend, host_gpus) ==
    select_best_recipe(files, mods, model_id, gpu_count, precision, backend, host_gpus, <<>>)

----------------------------------------------------------------------------
(* AIMRecipeSelector.get_optimal_configuration *)

\* _detect_vllm_gpus: pytorch_count is the count printed by the PyTorch
\* subprocess (ProbeFailed when it raises, times out or exits non-zero),
\* container_gpus what the fallback _detect_container_gpus returns
ProbeFailed == -1
detect_vllm_gpus(pytorch_count, container_gpus) ==
    IF pytorch_count # ProbeFailed /\ pytorch_count > 0 THEN pytorch_count
    ELSE IF container_gpus > 0 THEN container_gpus
    ELSE 1

\* what one detection method did: raised is the exception's name or "",
\* returncode the tool's exit status, count the number of GPUs it listed
Outcome(raised, returncode, count) ==
    [raised |-> raised, returncode |-> returncode, count |-> count]

\* what a tier returns, and the methods it ran on the way
Detected(count, tried) == [count |-> count, tried |-> tried]

\* os.environ: whether CUDA_VISIBLE_DEVICES is set, and the device ids it lists
Environ(set, devices) == [set |-> set, devices |-> devices]

\* the number of "," in the text that lists these device ids
commas(devices) == IF Len(devices) = 0 THEN 0 ELSE Len(devices) - 1

\* int(os.environ.get('CUDA_VISIBLE_DEVICES', '0').count(',') + 1)
fallback_count(env) == IF env.set THEN commas(env.devices) + 1 ELSE commas(<<0>>) + 1

\* rocm-smi, then nvidia-smi, inside one try block, then the fallback
smi_counts(rocm, nvidia, env) ==
    IF rocm.raised # ""
    THEN Detected(fallback_count(env), <<"rocm-smi", "env">>)
    ELSE IF rocm.returncode = 0
    THEN Detected(rocm.count, <<"rocm-smi">>)
    ELSE IF nvidia.raised # ""
    THEN Detected(fallback_count(env), <<"rocm-smi", "nvidia-smi", "env">>)
    ELSE IF nvidia.returncode = 0
    THEN Detected(nvidia.count, <<"rocm-smi", "nvidia-smi">>)
    ELSE Detected(fallback_count(env), <<"rocm-smi", "nvidia-smi", "env">>)

\* _detect_available_gpus
detect_available_gpus(rocm, nvidia, env) == smi_counts(rocm, nvidia, env)

\* the methods of a tier that ran before those of another
after(name, detected) == Detected(detected.count, <<name>> \o detected.tried)

\* _detect_container_gpus: torch raised when the import fails, else its count
\* is device_count() when cuda is available and 0 when it is not
detect_container_gpus(torch, rocm, nvidia, env) ==
    IF torch.raised # ""
    THEN Detected(fallback_count(env), <<"torch", "env">>)
    ELSE IF torch.count > 0
    THEN Detected(torch.count, <<"torch">>)
    ELSE after("torch", smi_counts(rocm, nvidia, env))

\* the count the PyTorch subprocess of _detect_vllm_gpus printed
pytorch_count_of(python) ==
    IF python.raised # "" \/ python.returncode # 0 THEN ProbeFailed ELSE python.count

\* _detect_vllm_gpus with its subprocess and its container fallback run
vllm_gpus_from(pytorch_count, container) ==
    IF pytorch_count # ProbeFailed /\ pytorch_count > 0
    THEN Detected(detect_vllm_gpus(pytorch_count, container.count), <<"python">>)
    ELSE Detected(detect_vllm_gpus(pytorch_count, container.count),
                  <<"python">> \o container.tried
                    \o (IF container.count > 0 THEN <<>> ELSE <<"assume">>))

\* a selection is [recipe, gpu_count, precision, tried]:
\* recipe, actual_gpu_count and actual_precision at that point of the call
selection(found, gpu_count, precision) ==
    [recipe |-> found.recipe, gpu_count |-> gpu_count, precision |-> precision,
     tried |-> found.tried]

RECURSIVE ladder_gpu_loop(_, _, _, _, _, _, _, _)

\* `if recipe: actual_gpu_count = gpu_count; break` of the GPU ladder
ladder_gpu_step(found, files, mods, model_id, vllm_gpus, held, precision, backend, i) ==
    IF found.recipe # None
    THEN selection(found, supported_gpu_counts[i], precision)
    ELSE ladder_gpu_loop(files, mods, model_id, vllm_gpus,
                         selection(found, held.gpu_count, held.precision),
                         precision, backend, i + 1)

\* for gpu_count in supported_gpu_counts, at a fixed precision; held is the
\* selection so far, whose GPU count and precision stay when nothing is found
ladder_gpu_loop(files, mods, model_id, vllm_gpus, held, precision, backend, i) ==
    IF i > Len(supported_gpu_counts) THEN held
    ELSE IF supported_gpu_counts[i] <= vllm_gpus
    THEN ladder_gpu_step(
             select_best_recipe(files, mods, model_id, supported_gpu_counts[i],
                                precision, backend, vllm_gpus, held.tried),
             files, mods, model_id, vllm_gpus, held, precision, backend, i)
    ELSE ladder_gpu_loop(files, mods, model_id, vllm_gpus, held, precision, backend, i + 1)

RECURSIVE ladder_precision_loop(_, _, _, _, _, _, _)

\* `if recipe: break` of the precision ladder
ladder_precision_step(inner, files, mods, model_id, vllm_gpus, backend, i) ==
    IF inner.recipe # None THEN inner
    ELSE ladder_precision_loop(files, mods, model_id, vllm_gpus, inner, backend, i + 1)

\* for precision in ['bf16', 'fp16', 'fp8'], each over the GPU ladder
ladder_precision_loop(files, mods, model_id, vllm_gpus, held, backend, i) ==
    IF i > Len(alt_precisions) THEN held
    ELSE IF alt_precisions[i] # held.precision
    THEN ladder_precision_step(
             ladder_gpu_loop(files, mods, model_id, vllm_gpus, held,
                             alt_precisions[i], backend, 1),
             files, mods, model_id, vllm_gpus, backend, i)
    ELSE ladder_precision_loop(files, mods, model_id, vllm_gpus, held, backend, i + 1)

\* "If still no recipe, try with different precisions"
try_precisions(sel, files, mods, model_id, vllm_gpus, backend) ==
    IF sel.recipe # None THEN sel
    ELSE ladder_precision_loop(files, mods, model_id, vllm_gpus, sel, backend, 1)

\* "If no recipe found, try with supported GPU counts in order of preference"
try_supported_gpu_counts(sel, files, mods, model_id, vllm_gpus, backend) ==
    IF sel.recipe # None THEN sel
    ELSE ladder_gpu_loop(files, mods, model_id, vllm_gpus, sel, sel.precision, backend, 1)

\* the value returned for the recipe found and the slot read from it
configuration(sel, config, model_id, backend, vllm_gpus) ==
    IF config = None THEN None
    ELSE [recipe_id |-> sel.recipe.recipe_id,
          model_id |-> model_id,
          gpu_count |-> sel.gpu_count,
          precision |-> sel.precision,
          backend |-> backend,
          config |-> config,
          available_gpus |-> vllm_gpus]

\* `if not recipe: return None`, then get_recipe_config and the return
finish(sel, model_id, backend, vllm_gpus) ==
    IF sel.recipe = None THEN None
    ELSE configuration(sel, get_recipe_config(sel.recipe, sel.gpu_count, backend),
                       model_id, backend, vllm_gpus)

\* the searches of the call from the candidate GPU count and precision on
search(files, mods, model_id, actual_gpu_count, actual_precision, backend, vllm_gpus) ==
    try_precisions(
        try_supported_gpu_counts(
            selection(select_best_recipe(files, mods, model_id, actual_gpu_count,
                                         actual_precision, backend, vllm_gpus, <<>>),
                      actual_gpu_count, actual_precision),
            files, mods, model_id, vllm_gpus, backend),
        files, mods, model_id, vllm_gpus, backend)

\* [config, tried] of a finished search
outcome(sel, model_id, backend, vllm_gpus) ==
    [config |-> finish(sel, model_id, backend, vllm_gpus), tried |-> sel.tried]

\* returns [config, tried]: the value returned and the pairs tried
get_optimal_configuration(files, mods, model_id, customer_gpu_count, customer_precision, backend, vllm_gpus) ==
    outcome(search(files, mods, model_id,
                   get_optimal_gpu_count(mods, model_id, vllm_gpus, customer_gpu_count),
                   select_best_precision(mods, model_id, customer_precision),
                   backend, vllm_gpus),
            model_id, backend, vllm_gpus)

----------------------------------------------------------------------------
(* AIMConfigGenerator                                                      *)
(* A key of a slot's `args` is [dashes, name]: the number of leading       *)
(* dashes it is written with and the rest of it.  A command string is      *)
(* [words]: the sequence of its words, the entrypoint, then flags and      *)
(* values.                                                                 *)

Key(dashes, name) == [dashes |-> dashes, name |-> name]
Arg(key, value) == [key |-> key, value |-> value]

\* an exception raised instead of a value; why tells the raise statement
Raised(kind, why) == [raised |-> kind, why |-> why]
IsRaised(v) == "raised" \in DOMAIN v

\* a command string and its words
Command(words) == [words |-> words]
Entrypoint(text) == [entrypoint |-> text]
\* f" --{key}": two dashes before the key as it stands
Flag(key) == [flag |-> Key(key.dashes + 2, key.name)]
\* f" {value}"
Value(text) == [value |-> text]

\* recipe_config.get("args", {})
slot_args(recipe_config) ==
    IF "args" \in DOMAIN recipe_config THEN recipe_config.args ELSE <<>>

\* "Remove leading dashes if present" that knows the double dash only
strip_dashes_double_only(key) ==
    IF key.dashes >= 2 THEN Key(key.dashes - 2, key.name) ELSE key

\* "Remove leading dashes if present": key[2:] after "--", key[1:] after "-"
strip_dashes(key) ==
    IF key.dashes >= 2 THEN Key(key.dashes - 2, key.name)
    ELSE IF key.dashes >= 1 THEN Key(key.dashes - 1, key.name)
    ELSE key

\* argument_words that lets the slot's own port through
argument_words_own_port(key, value, port) == <<Flag(key), Value(value)>>

\* the words one arg adds: `--port {port}` for the key "port", else `--{key} {value}`
argument_words(key, value, port) ==
    IF key = Key(0, "port") THEN <<Flag(key), Value(ToString(port))>>
    ELSE <<Flag(key), Value(value)>>

\* for key, value in args.items()
RECURSIVE add_arguments(_, _, _, _)
add_arguments(args, port, i, command) ==
    IF i > Len(args) THEN Command(command)
    ELSE add_arguments(args, port, i + 1,
                       command \o argument_words(strip_dashes(args[i].key),
                                                 args[i].value, port))

\* _build_command: the command, or the ValueError of an unsupported backend
build_command(recipe_config, backend, port) ==
    IF backend = "vllm"
    THEN add_arguments(slot_args(recipe_config), port, 1,
                       <<Entrypoint("python -m vllm.entrypoints.openai.api_server")>>)
    ELSE IF backend = "sglang"
    THEN add_arguments(slot_args(recipe_config), port, 1,
                       <<Entrypoint("python -m sglang.launch_server")>>)
    ELSE Raised("ValueError", "Unsupported backend")

\* precision_variables whose fp8 branch sets the variable of fp16
precision_variables_pasted(precision) ==
    IF precision = "bf16" THEN {"VLLM_USE_BF16"}
    ELSE IF precision = "fp16" THEN {"VLLM_USE_FP16"}
    ELSE IF precision = "fp8" THEN {"VLLM_USE_FP16"}
    ELSE {}

\* "Add precision-specific environment variables"
precision_variables(precision) ==
    IF precision = "bf16" THEN {"VLLM_USE_BF16"}
    ELSE IF precision = "fp16" THEN {"VLLM_USE_FP16"}
    ELSE IF precision = "fp8" THEN {"VLLM_USE_FP8"}
    ELSE {}

\* "Add backend-specific environment variables"
backend_variables(backend) ==
    IF backend = "vllm" THEN {"VLLM_DISABLE_CUSTOM_ALLREDUCE"}
    ELSE IF backend = "sglang" THEN {"SGLANG_DISABLE_CUSTOM_ALLREDUCE"}
    ELSE {}

\* the texts of a recipe whose lower case holds "trust-remote-code"
MarkerTexts == {"trust-remote-code", "Trust-Remote-Code"}

\* the slots of a recipe, whatever the backend and GPU count
slots_of(recipe) ==
    IF "serve" \in DOMAIN recipe
    THEN UNION { { recipe.serve[b][g] : g \in DOMAIN recipe.serve[b] }
                 : b \in DOMAIN recipe.serve }
    ELSE {recipe}

\* "trust-remote-code" in str(recipe).lower(), the marker being looked for in
\* the keys and values of every slot's args
mentions_trust_remote_code(recipe) ==
    \E slot \in slots_of(recipe) : \E i \in 1..Len(slot_args(slot)) :
        \/ slot_args(slot)[i].key.name \in MarkerTexts
        \/ slot_args(slot)[i].value \in MarkerTexts

model_variables(recipe) ==
    IF mentions_trust_remote_code(recipe) THEN {"HF_HUB_TRUST_REMOTE_CODE"} ELSE {}

\* the fixed variables of every environment
BaseVariables == {"PYTHONUNBUFFERED", "CUDA_VISIBLE_DEVICES"}

\* _build_environment: variable name -> value
build_environment(recipe, precision, backend) ==
    [v \in BaseVariables \cup precision_variables(precision)
             \cup backend_variables(backend) \cup model_variables(recipe) |->
        IF v = "CUDA_VISIBLE_DEVICES" THEN "0,1,2,3,4,5,6,7" ELSE "1"]

\* a volume mount "host:container", and a read-only one "host:container:ro"
Bind(host, container) == [host |-> host, container |-> container]
BindReadOnly(host, container) == [host |-> host, container |-> container, mode |-> "ro"]

\* _build_volumes
build_volumes(recipe) ==
    <<Bind("/tmp/.cache", "/tmp/.cache"),
      Bind("~/.cache/huggingface", "/root/.cache/huggingface")>>

\* the `<backend>_serve` keys of a dict; a slot handed over as a recipe has none
serve_keys(recipe) == IF "serve" \in DOMAIN recipe THEN DOMAIN recipe.serve ELSE {}

\* raise ValueError(f"... {recipe['recipe_id']}"): the message itself raises
\* KeyError for a dict without 'recipe_id'
value_error(recipe, why) ==
    IF "recipe_id" \in DOMAIN recipe THEN Raised("ValueError", why)
    ELSE Raised("KeyError", "recipe_id")

\* the dict built at lines 58-69, or what _build_command raised
deployment_config(recipe, recipe_config, gpu_count, precision, backend, port, command) ==
    IF IsRaised(command) THEN command
    ELSE [recipe_id |-> recipe.recipe_id,
          model_id |-> recipe.huggingface_id,
          gpu_count |-> gpu_count,
          precision |-> precision,
          backend |-> backend,
          port |-> port,
          command |-> command,
          environment |-> build_environment(recipe, precision, backend),
          volumes |-> build_volumes(recipe),
          args |-> slot_args(recipe_config)]

\* generate_config from the enabled test on, recipe_config being the slot
generate_from_slot(recipe, recipe_config, gpu_count, precision, backend, port) ==
    IF ~slot_enabled(recipe_config) THEN value_error(recipe, "disabled")
    ELSE deployment_config(recipe, recipe_config, gpu_count, precision, backend, port,
                           build_command(recipe_config, backend, port))

\* generate_config that takes the slot whether enabled or not
generate_config_unchecked(recipe, gpu_count, precision, backend, port) ==
    IF backend \notin serve_keys(recipe) THEN value_error(recipe, "backend")
    ELSE IF gpu_count \notin DOMAIN recipe.serve[backend]
    THEN value_error(recipe, "gpu_count")
    ELSE deployment_config(recipe, recipe.serve[backend][gpu_count], gpu_count,
                           precision, backend, port,
                           build_command(recipe.serve[backend][gpu_count], backend, port))

\* generate_config: the deployment configuration, or the exception it raises
generate_config(recipe, gpu_count, precision, backend, port) ==
    IF backend \notin serve_keys(recipe) THEN value_error(recipe, "backend")
    ELSE IF gpu_count \notin DOMAIN recipe.serve[backend]
    THEN value_error(recipe, "gpu_count")
    ELSE generate_from_slot(recipe, recipe.serve[backend][gpu_count], gpu_count,
                            precision, backend, port)

----------------------------------------------------------------------------
(* convert_args_to_command_line of aim_generate_command.py.  A text is the  *)
(* sequence of its characters; a Python value is [kind, bool, int, text].   *)

PyBool(b) == [kind |-> "bool", bool |-> b, int |-> 0, text |-> <<>>]
PyInt(n) == [kind |-> "int", bool |-> FALSE, int |-> n, text |-> <<>>]
PyStr(text) == [kind |-> "str", bool |-> FALSE, int |-> 0, text |-> text]

RECURSIVE digits(_)
\* the decimal digits of a natural number
digits(n) == IF n < 10 THEN <<ToString(n)>> ELSE digits(n \div 10) \o <<ToString(n % 10)>>

\* str(value)
str(value) ==
    IF value.kind = "bool"
    THEN (IF value.bool THEN <<"T", "r", "u", "e">> ELSE <<"F", "a", "l", "s", "e">>)
    ELSE IF value.kind = "int" THEN digits(value.int)
    ELSE value.text

UpperCase ==
    <<"A", "B", "C", "D", "E", "F", "G", "H", "I", "J", "K", "L", "M",
      "N", "O", "P", "Q", "R", "S", "T", "U", "V", "W", "X", "Y", "Z">>
LowerCase ==
    <<"a", "b", "c", "d", "e", "f", "g", "h", "i", "j", "k", "l", "m",
      "n", "o", "p", "q", "r", "s", "t", "u", "v", "w", "x", "y", "z">>

\* str.lower()
lower_char(c) ==
    IF \E i \in 1..Len(UpperCase) : UpperCase[i] = c
    THEN LowerCase[CHOOSE i \in 1..Len(UpperCase) : UpperCase[i] = c]
    ELSE c
lower(text) == [i \in 1..Len(text) |-> lower_char(text[i])]

WhitespaceChars == {" ", "\t", "\n"}

RECURSIVE lstrip(_)
lstrip(text) ==
    IF Len(text) > 0 /\ text[1] \in WhitespaceChars THEN lstrip(Tail(text)) ELSE text

RECURSIVE rstrip(_)
rstrip(text) ==
    IF Len(text) > 0 /\ text[Len(text)] \in WhitespaceChars
    THEN rstrip(SubSeq(text, 1, Len(text) - 1))
    ELSE text

\* str.strip()
strip(text) == rstrip(lstrip(text))

\* the names of boolean_flags, each written there with two dashes
boolean_flag_names ==
    { "trust-remote-code", "enforce-eager", "disable-sliding-window",
      "disable-cascade-attn", "skip-tokenizer-init", "enable-prompt-embeds",
      "disable-async-output-proc", "enable-sleep-mode", "enable-lora",
      "enable-lora-bias", "fully-sharded-loras", "enable-prompt-adapter",
      "enable-reasoning", "enable-prefix-caching", "calculate-kv-scales",
      "disable-mm-preprocessor-cache", "enable-chunked-prefill",
      "disable-chunked-mm-input", "disable-hybrid-kv-cache-manager",
      "use-v2-block-manager", "disable-log-stats", "disable-log-requests",
      "disable-fastapi-docs", "enable-prompt-tokens-details",
      "enable-force-include-usage", "enable-server-load-tracking",
      "multi-step-stream-outputs", "eplb-log-balancedness",
      "ray-workers-use-nsight", "disable-custom-all-reduce",
      "enable-multimodal-encoder-data-parallel" }
boolean_flags == { Key(2, name) : name \in boolean_flag_names }

\* flag = key if key.startswith('--') else f"--{key}"
flag_of(key) == IF key.dashes >= 2 THEN key ELSE Key(key.dashes + 2, key.name)

\* an element of args_list: the flag alone, or f"{flag} {value}"
Emitted(flag, bare, value) == [flag |-> flag, bare |-> bare, value |-> value]

\* the body of the loop, with the test of the value on the raw text
emit_unnormalized(flag, value) ==
    IF flag \in boolean_flags
    THEN (IF str(value) \in {<<"t", "r", "u", "e">>, <<"1">>, <<"y", "e", "s">>}
          THEN <<Emitted(flag, TRUE, <<>>)>>
          ELSE <<>>)
    ELSE <<Emitted(flag, FALSE, str(value))>>
\* the body of the loop over args_dict.items()
emit(flag, value) ==
    IF flag \in boolean_flags
    THEN (IF lower(strip(str(value))) \in {<<"t", "r", "u", "e">>, <<"1">>, <<"y", "e", "s">>}
          THEN <<Emitted(flag, TRUE, <<>>)>>
          ELSE <<>>)
    ELSE <<Emitted(flag, FALSE, str(value))>>

RECURSIVE convert_loop(_, _, _)
convert_loop(args, i, args_list) ==
    IF i > Len(args) THEN args_list
    ELSE convert_loop(args, i + 1, args_list \o emit(flag_of(args[i].key), args[i].value))

\* convert_args_to_command_line: the elements that " ".join puts together
convert_args_to_command_line(args) == convert_loop(args, 1, <<>>)

----------------------------------------------------------------------------
(* AIMCacheManager and AIMEngine.launch_model *)

\* self.cache_dir, by default
CacheDir == "/workspace/model-cache"

\* get_model_cache_path: cache_dir / "models" / the id with "--" for "/"
model_cache_path(model_id) == <<CacheDir, "models", [dashed |-> model_id]>>

\* generate_cache_environment; cached is what is_model_cached reports
generate_cache_environment(model_id, cached) ==
    [v \in {"HF_HOME", "TRANSFORMERS_CACHE", "HF_DATASETS_CACHE", "VLLM_CACHE_DIR",
             "HF_HUB_DISABLE_TELEMETRY", "PYTORCH_CUDA_ALLOC_CONF"}
            \cup (IF cached THEN {"MODEL_CACHE_PATH"} ELSE {}) |->
        IF v = "HF_HUB_DISABLE_TELEMETRY" THEN "1"
        ELSE IF v = "PYTORCH_CUDA_ALLOC_CONF" THEN "max_split_size_mb:512"
        ELSE IF v = "MODEL_CACHE_PATH" THEN model_cache_path(model_id)
        ELSE CacheDir]

\* generate_cache_volumes; cached is what is_model_cached reports
generate_cache_volumes(model_id, cached) ==
    <<BindReadOnly(CacheDir, "/workspace/model-cache")>>
    \o (IF cached
        THEN <<BindReadOnly(model_cache_path(model_id),
                            <<"/workspace/models", [dashed |-> model_id]>>)>>
        ELSE <<>>)

\* config["environment"].update(cache_env)
dict_update(d, other) ==
    [k \in DOMAIN d \cup DOMAIN other |-> IF k \in DOMAIN other THEN other[k] ELSE d[k]]

\* "Add cache support to configuration"
add_cache_support(config, model_id, cache_enabled, cached) ==
    IF cache_enabled
    THEN [config EXCEPT
            !.environment = dict_update(@, generate_cache_environment(model_id, cached)),
            !.volumes = @ \o generate_cache_volumes(model_id, cached)]
    ELSE config

\* {"success": False, "error": ...}; nothing is handed to the launcher
Failure(error) == [success |-> FALSE, error |-> error, handed |-> None]

\* validate_inputs; SlashlessIds are the model ids without a "/"
SlashlessIds == {"", "model"}
validate_inputs_truthy(model_id, gpu_count, precision, backend) ==
    /\ model_id \notin SlashlessIds
    /\ (gpu_count # NoneGpu /\ gpu_count # 0) => (gpu_count >= 1 /\ gpu_count <= 8)
    /\ precision # NonePrecision => precision \in {"fp16", "bf16", "fp8", "int8", "int4"}
    /\ backend \in {"vllm", "sglang"}
validate_inputs(model_id, gpu_count, precision, backend) ==
    /\ model_id \notin SlashlessIds
    /\ gpu_count # NoneGpu => (gpu_count >= 1 /\ gpu_count <= 8)
    /\ precision # NonePrecision => precision \in {"fp16", "bf16", "fp8", "int8", "int4"}
    /\ backend \in {"vllm", "sglang"}

\* launch_model from step 2 on: config is what generate_config returned or
\* raised; the configuration with cache support is handed to
\* docker_manager.launch_container
launch_config(config, model_id, cache_enabled, cached) ==
    IF IsRaised(config) THEN Failure(config)
    ELSE [success |-> TRUE,
          handed |-> add_cache_support(config, model_id, cache_enabled, cached),
          cached |-> cached]

\* launch_model from the return of get_optimal_configuration on
launch_optimal(optimal_config, model_id, port, cache_enabled, cached) ==
    IF optimal_config = None THEN Failure("No suitable configuration found")
    ELSE launch_config(generate_config(optimal_config.config, optimal_config.gpu_count,
                                       optimal_config.precision, optimal_config.backend,
                                       port),
                       model_id, cache_enabled, cached)

\* AIMEngine.get_optimal_configuration from the return of the selector on
optimal_answer(optimal_config) ==
    IF optimal_config = None
    THEN [success |-> FALSE, error |-> "No suitable configuration found"]
    ELSE [success |-> TRUE, configuration |-> optimal_config]

----------------------------------------------------------------------------
(* The readiness polling loops of AIMDockerManager and AIMEndpointManager,  *)
(* launch_container and the endpoint registry.  Time stamps and the config  *)
(* kept in an endpoint_info are left out.                                   *)

\* timeout of _wait_for_container_ready
ContainerTimeout == 300
\* timeout of _wait_for_endpoint_ready
EndpointTimeout == 600
\* time.sleep(5) of both loops
PollInterval == 5

\* start_time = time.time() on entering the loop
begin_wait(loop, now, timeout) ==
    [loop |-> loop, start_time |-> now, timeout |-> timeout,
     observed |-> FALSE, ready |-> FALSE]

\* while time.time() - start_time < timeout
in_time(w, now) == now - w.start_time < w.timeout

\* the loop without its sleep
next_poll_time_busy(now, duration) == now + duration
\* the time of the next test of the loop: the poll took duration, then sleep(5)
next_poll_time(now, duration) == now + duration + PollInterval

\* what `docker ps --filter name=... --format {{.Status}}` came to:
\* _run_docker_command's success and the words of its stdout
Ps(success, stdout) == [success |-> success, stdout |-> stdout]

\* result["success"] and result["stdout"].strip() and "Up" in result["stdout"]
observes_up(ps) == ps.success /\ Len(ps.stdout) > 0 /\ "Up" \in Range(ps.stdout)

\* what requests.get(f"{endpoint_url}/health", timeout=5) came to
Response(raised, status_code) == [raised |-> raised, status_code |-> status_code]

\* response.status_code == 200, a RequestException being passed over
observes_ready(response) == response.raised = "" /\ response.status_code = 200

\* the same dict with the readiness left unread
container_info_optimistic(ready, container_name) ==
    [success |-> TRUE, container_name |-> container_name]
\* the dict launch_container returns after _wait_for_container_ready
container_info(ready, container_name) ==
    IF ready
    THEN [success |-> TRUE, container_name |-> container_name]
    ELSE [success |-> FALSE, error |-> "Container failed to start properly"]

\* f"http://localhost:{port}"
endpoint_url(port) == [host |-> "localhost", port |-> port]

\* endpoint_info of start_endpoint
endpoint_info(container_id, port) ==
    [container_id |-> container_id, endpoint_url |-> endpoint_url(port),
     port |-> port, status |-> "running"]

\* self.endpoints[container_id] = endpoint_info
register(registry, container_id, info) ==
    [id \in DOMAIN registry \cup {container_id} |->
        IF id = container_id THEN info ELSE registry[id]]

\* self.endpoints.values()
dict_values(registry) == { registry[id] : id \in DOMAIN registry }

\* stop_endpoint that drops the entry
mark_stopped_dropping(registry, container_id) ==
    [id \in DOMAIN registry \ {container_id} |-> registry[id]]
\* endpoint_info["status"] = "stopped" of stop_endpoint
mark_stopped(registry, container_id) ==
    [registry EXCEPT ![container_id] = [@ EXCEPT !.status = "stopped"]]

----------------------------------------------------------------------------
(* AIMCacheManager's index.  A model id is the sequence of its characters.  *)

RECURSIVE replace_slashes(_)
\* model_id.replace("/", "--")
replace_slashes(model_id) ==
    IF Len(model_id) = 0 THEN <<>>
    ELSE (IF Head(model_id) = "/" THEN <<"-", "-">> ELSE <<Head(model_id)>>)
            \o replace_slashes(Tail(model_id))

\* get_model_cache_path, below cache_dir / "models"
cache_dir_name(model_id) == replace_slashes(model_id)

\* is_model_cached on the index and the directories at hand
is_model_cached(c, model_id) ==
    /\ model_id \in DOMAIN c.index
    /\ cache_dir_name(model_id) \in c.dirs
    /\ c.index[model_id].cached

\* self.cache_index[model_id] = {"cached": True, ...}
index_with(index, model_id) ==
    [id \in DOMAIN index \cup {model_id} |->
        IF id = model_id THEN [cached |-> TRUE, cache_path |-> cache_dir_name(model_id)]
        ELSE index[id]]

\* del self.cache_index[model_id]
index_without(index, model_id) == [id \in DOMAIN index \ {model_id} |-> index[id]]

\* add_model_to_cache: the directory is made, and the index is updated
\* unless copying the files raised
add_model_to_cache(c, model_id, copied) ==
    [index |-> IF copied THEN index_with(c.index, model_id) ELSE c.index,
     dirs |-> c.dirs \cup {cache_dir_name(model_id)},
     call |-> [operation |-> "add_model_to_cache", model_id |-> model_id]]

\* remove_model_from_cache
remove_model_from_cache(c, model_id) ==
    [index |-> index_without(c.index, model_id),
     dirs |-> c.dirs \ {cache_dir_name(model_id)},
     call |-> [operation |-> "remove_model_from_cache", model_id |-> model_id]]

----------------------------------------------------------------------------
(* AIMEngine.__init__.  The engine is [docker_available, cache_importable,  *)
(* cache_instantiable]: what the constructor met, and [raised, logger,      *)
(* premature_logger_use, cache_manager, cache_enabled]: the exception that  *)
(* left it, whether self.logger is assigned, whether it was read before,    *)
(* whether self.cache_manager is an AIMCacheManager (None otherwise) and    *)
(* self.cache_enabled.                                                      *)

\* no AIMEngine has been constructed by the program at hand
NoEngine ==
    [docker_available |-> FALSE, cache_importable |-> FALSE, cache_instantiable |-> FALSE,
     raised |-> "", logger |-> FALSE, premature_logger_use |-> FALSE,
     cache_manager |-> FALSE, cache_enabled |-> FALSE]

\* the constructor is left by an exception at this point
leave(e, raised) == [e EXCEPT !.raised = raised]

\* self.logger.info(...) / self.logger.warning(...): AttributeError when
\* self.logger is not assigned yet
log(e) ==
    IF e.raised # "" \/ e.logger THEN e
    ELSE [e EXCEPT !.raised = "AttributeError", !.premature_logger_use = TRUE]

\* lines 44-51: the logger is assigned, then the cache manager is reported
finish_init(e) ==
    IF e.raised # "" THEN e
    ELSE log([e EXCEPT !.logger = TRUE,
                       !.cache_enabled = IF e.cache_manager THEN TRUE ELSE e.cache_enabled])

\* lines 35-43: the try block that imports and instantiates the cache manager
cache_block(e) ==
    IF ~e.cache_importable
    THEN [e EXCEPT !.cache_manager = FALSE, !.cache_enabled = FALSE]
    ELSE IF ~e.cache_instantiable THEN leave(e, "OSError")
    ELSE log([e EXCEPT !.cache_manager = TRUE, !.cache_enabled = TRUE])

\* AIMEngine.__init__
init_engine(docker_available, cache_importable, cache_instantiable) ==
    IF ~docker_available
    THEN [NoEngine EXCEPT !.docker_available = docker_available,
                          !.cache_importable = cache_importable,
                          !.cache_instantiable = cache_instantiable,
                          !.raised = "RuntimeError"]
    ELSE finish_init(cache_block([NoEngine EXCEPT
                                    !.docker_available = docker_available,
                                    !.cache_importable = cache_importable,
                                    !.cache_instantiable = cache_instantiable]))

----------------------------------------------------------------------------
(* The catalog on disk *)

\* The recipe files of a recipes directory; every file has its own recipe_id.
RecipeBf16 ==
    RecipeFile("m-bf16", KnownModel, "bf16",
               [b \in {"vllm"} |-> Serve("m-bf16", b, {1, 2, 4}, {8}, {})])
RecipeFp16 ==
    RecipeFile("m-fp16", KnownModel, "fp16",
               [b \in Backends |->
                   Serve("m-fp16", b, IF b = "vllm" THEN {4} ELSE {2, 8}, {}, {})])
RecipeFp8 ==
    RecipeFile("m-fp8", KnownModel, "fp8",
               [b \in {"vllm"} |-> Serve("m-fp8", b, {8}, {1}, {2})])
\* a second bf16 recipe of the same model
RecipeBf16Tp ==
    RecipeFile("m-bf16-tp", KnownModel, "bf16",
               [b \in {"vllm"} |-> Serve("m-bf16-tp", b, {2, 4, 8}, {}, {})])
\* a recipe of another model
RecipeOther ==
    RecipeFile("o-bf16", OtherModel, "bf16",
               [b \in Backends |-> Serve("o-bf16", b, {1, 2, 4, 8}, {}, {})])

RecipePool == {RecipeBf16, RecipeFp16, RecipeFp8, RecipeBf16Tp, RecipeOther}

\* the orders in which glob() can yield up to MaxRecipeFiles distinct files
Enumerations ==
    UNION { { f \in [1..n -> RecipePool] : \A i, j \in 1..n : i # j => f[i] # f[j] }
            : n \in 0..MaxRecipeFiles }

ModelFile(model_id, size) == [huggingface_id |-> model_id, size |-> size]

\* a models directory that describes the requested model, or only another one
ModelCatalogs ==
    { [m \in {KnownModel} |-> ModelFile(m, "7B")],
      [m \in {OtherModel} |-> ModelFile(m, "7B")] }

\* the size classes of _get_optimal_gpu_count, and one it does not name
SizeClasses == {"7B", "8B", "13B", "14B", "32B", "34B", "70B", "72B", "3B"}

SizeCatalogs ==
    { [m \in {KnownModel} |-> ModelFile(m, s)] : s \in SizeClasses }
      \cup { [m \in {OtherModel} |-> ModelFile(m, "7B")] }

SizeEnumerations == { <<>>, <<RecipeBf16, RecipeFp16>> }

RequestModels == {KnownModel}
RequestGpuCounts == {NoneGpu, 1, 2, 3, 4, 8}
RequestPrecisions == {NonePrecision, "bf16", "fp16", "fp8", "int8"}
ProbeCounts == 0..MaxVisibleGpus

NoRequest == [model_id |-> "", customer_gpu_count |-> NoneGpu,
              customer_precision |-> NonePrecision, backend |-> ""]
NoProbe == [vllm_gpus |-> 0]
NoCandidate == [gpu_count |-> NoneGpu, precision |-> NonePrecision]

Catalog(model_catalogs, enumerations) ==
    /\ models \in model_catalogs
    /\ recipe_files \in enumerations

\* no wait is under way
NoWait == [loop |-> "", start_time |-> 0, timeout |-> 0, observed |-> FALSE, ready |-> FALSE]
\* no launch_container call is under way
NoLaunch == [container_name |-> "", run |-> "", polled |-> FALSE, stops |-> <<>>, returned |-> None]
\* no call of the endpoint manager is under way
NoEndpointCall == [operation |-> "", container_id |-> "", port |-> 0, returned |-> None]

\* the managers between calls
ManagersIdle ==
    /\ clock = 0
    /\ wait = NoWait
    /\ docker = NoLaunch
    /\ endpoint_call = NoEndpointCall

\* self.endpoints = {} of AIMEndpointManager.__init__
NoEndpoints == [id \in {} |-> None]

\* no call of the cache manager is under way
NoCacheCall == [operation |-> "", model_id |-> <<>>]

\* an empty cache directory: no cache_index.json, no model directory
EmptyCache == [index |-> [id \in {} |-> None], dirs |-> {}, call |-> NoCacheCall]

\* no call is under way and none has been made
AtRest ==
    /\ ManagersIdle
    /\ endpoints = NoEndpoints
    /\ cache = EmptyCache
    /\ request = NoRequest
    /\ probe = NoProbe
    /\ candidate = NoCandidate
    /\ result = None
    /\ attempted = <<>>
    /\ deployment = None

Idle ==
    /\ pc = "idle"
    /\ engine = NoEngine
    /\ AtRest

Init == Catalog(ModelCatalogs, Enumerations) /\ Idle

\* the same program over every size class of the model catalog
InitSizes == Catalog(SizeCatalogs, SizeEnumerations) /\ Idle

\* get_optimal_configuration is entered with the caller's arguments
Call ==
    /\ pc = "idle"
    /\ \E model_id \in RequestModels, customer_gpu_count \in RequestGpuCounts,
          customer_precision \in RequestPrecisions, backend \in Backends :
            request' = [model_id |-> model_id,
                        customer_gpu_count |-> customer_gpu_count,
                        customer_precision |-> customer_precision,
                        backend |-> backend]
    /\ pc' = "probing"
    /\ UNCHANGED <<managers, models, recipe_files, probe, candidate, result, attempted, deployment>>

\* vllm_gpus = self._detect_vllm_gpus()
Probe ==
    /\ pc = "probing"
    /\ \E pytorch_count \in ProbeCounts \cup {ProbeFailed}, container_gpus \in ProbeCounts :
            probe' = [vllm_gpus |-> detect_vllm_gpus(pytorch_count, container_gpus)]
    /\ pc' = "matching"
    /\ UNCHANGED <<managers, models, recipe_files, request, candidate, result, attempted, deployment>>

\* the call's outcome is handed to result and attempted
Returned(out) == result' = out.config /\ attempted' = out.tried

\* the rest of get_optimal_configuration, up to its return
Resolve ==
    /\ pc = "matching"
    /\ pc' = "done"
    /\ candidate' =
         [gpu_count |-> get_optimal_gpu_count(models, request.model_id,
                            probe.vllm_gpus, request.customer_gpu_count),
          precision |-> select_best_precision(models, request.model_id,
                            request.customer_precision)]
    /\ Returned(get_optimal_configuration(recipe_files, models, request.model_id,
                    request.customer_gpu_count, request.customer_precision,
                    request.backend, probe.vllm_gpus))
    /\ UNCHANGED <<managers, models, recipe_files, request, probe, deployment>>

\* the caller takes the result; the selector keeps nothing between calls
Return ==
    /\ pc = "done"
    /\ pc' = "idle"
    /\ request' = NoRequest
    /\ probe' = NoProbe
    /\ candidate' = NoCandidate
    /\ result' = None
    /\ attempted' = <<>>
    /\ UNCHANGED <<managers, models, recipe_files, deployment>>

Next == Call \/ Probe \/ Resolve \/ Return

Spec == Init /\ [][Next]_vars

SpecSizes == InitSizes /\ [][Next]_vars

----------------------------------------------------------------------------
(* select_recipe called on its own, as the tests and the scripts do *)

\* GPU counts asked of select_recipe; 10 is the count of test_validation
SelectGpuCounts == {NoneGpu, 1, 2, 4, 8, 10}
\* precisions asked of select_recipe; "invalid" is that of test_validation
SelectPrecisions == {NonePrecision, "bf16", "fp16", "invalid"}
\* what _detect_available_gpus can report
HostCounts == 0..MaxVisibleGpus

\* the recipe select_recipe returns, with the pairs it tried
selected(found) == [config |-> found.recipe, tried |-> found.tried]

\* the call select_recipe(model_id, gpu_count, precision, backend)
SelectCall(model_id, gpu_count, precision, backend, host_gpus) ==
    /\ request' = [model_id |-> model_id, customer_gpu_count |-> gpu_count,
                   customer_precision |-> precision, backend |-> backend]
    /\ probe' = [vllm_gpus |-> host_gpus]
    /\ Returned(selected(select_recipe(recipe_files, models, model_id, gpu_count,
                                       precision, backend, host_gpus)))

\* select_recipe from its call to its return; the host's GPUs are counted
\* only when no GPU count is given
SelectRecipe ==
    /\ pc = "idle"
    /\ pc' = "selected"
    /\ \E model_id \in RequestModels, gpu_count \in SelectGpuCounts,
          precision \in SelectPrecisions, backend \in Backends :
            \E host_gpus \in (IF gpu_count = NoneGpu THEN HostCounts ELSE {0}) :
                SelectCall(model_id, gpu_count, precision, backend, host_gpus)
    /\ UNCHANGED <<managers, models, recipe_files, candidate, deployment>>

\* the caller takes the recipe
ReturnRecipe ==
    /\ pc = "selected"
    /\ pc' = "idle"
    /\ request' = NoRequest
    /\ probe' = NoProbe
    /\ result' = None
    /\ attempted' = <<>>
    /\ UNCHANGED <<managers, models, recipe_files, candidate, deployment>>

NextSelect == SelectRecipe \/ ReturnRecipe

SpecSelect == Init /\ [][NextSelect]_vars

----------------------------------------------------------------------------
(* Vocabulary of the properties, stated on the catalog itself *)

Done == pc = "done"

\* the recipe files of the requested model
OfModel ==
    { recipe_files[i] : i \in { k \in 1..Len(recipe_files) :
                                recipe_files[k].huggingface_id = request.model_id } }

\* the slot (backend, gpu_count) of recipe is present with enabled == true
SlotIsEnabled(recipe, gpu_count, backend) ==
    /\ backend \in DOMAIN recipe.serve
    /\ gpu_count \in DOMAIN recipe.serve[backend]
    /\ "enabled" \in DOMAIN recipe.serve[backend][gpu_count]
    /\ recipe.serve[backend][gpu_count].enabled = TRUE

\* some recipe of the requested model, of this precision, is enabled at gpu_count
EnabledAt(precision, gpu_count) ==
    \E r \in OfModel : r.precision = precision
                       /\ SlotIsEnabled(r, gpu_count, request.backend)

\* the returned configuration is exactly the slot (backend, gpu_count) of recipe
ReturnsSlot(recipe, gpu_count) ==
    /\ result # None
    /\ result.recipe_id = recipe.recipe_id
    /\ result.model_id = request.model_id
    /\ result.gpu_count = gpu_count
    /\ result.precision = recipe.precision
    /\ result.backend = request.backend
    /\ result.config = recipe.serve[request.backend][gpu_count]

\* the returned configuration is an enabled slot of this precision and GPU count
ReturnsEnabledSlotAt(precision, gpu_count) ==
    \E r \in OfModel : /\ r.precision = precision
                       /\ SlotIsEnabled(r, gpu_count, request.backend)
                       /\ ReturnsSlot(r, gpu_count)

----------------------------------------------------------------------------
(* C1 *)

\* C1 (as claimed): for every enabled slot (p, g, b) of a recipe of model m,
\* get_optimal_configuration(m, g, p, b) returns that recipe's id with
\* gpu_count = g, precision = p and the slot's config unchanged.
C1_Original ==
    Done =>
        \A r \in OfModel :
            ( /\ request.customer_precision = r.precision
              /\ SlotIsEnabled(r, request.customer_gpu_count, request.backend) )
            => ReturnsSlot(r, request.customer_gpu_count)

\* no other recipe of the model has the precision of r and is enabled at the slot
OnlyRecipeAt(r, gpu_count) ==
    \A r2 \in OfModel :
        (r2.precision = r.precision /\ SlotIsEnabled(r2, gpu_count, request.backend))
        => r2 = r

\* C1 (amended): for every enabled slot (p, g, b) of a recipe of model m such
\* that g does not exceed the runtime-visible GPU count probed by the call and
\* no other recipe of m of precision p is enabled at (b, g), the call returns
\* that recipe's id with gpu_count = g, precision = p and the slot's config
\* unchanged.
C1_ExactSlotReturned ==
    Done =>
        \A r \in OfModel :
            ( /\ request.customer_precision = r.precision
              /\ SlotIsEnabled(r, request.customer_gpu_count, request.backend)
              /\ request.customer_gpu_count <= probe.vllm_gpus
              /\ OnlyRecipeAt(r, request.customer_gpu_count) )
            => ReturnsSlot(r, request.customer_gpu_count)

\* an exact request is answered while a recipe of another precision is
\* enabled at the same slot
C1_Witness ==
    /\ Done
    /\ \E r, r2 \in OfModel :
          /\ request.customer_precision = r.precision
          /\ SlotIsEnabled(r, request.customer_gpu_count, request.backend)
          /\ request.customer_gpu_count <= probe.vllm_gpus
          /\ OnlyRecipeAt(r, request.customer_gpu_count)
          /\ r2.precision # r.precision
          /\ SlotIsEnabled(r2, request.customer_gpu_count, request.backend)
          /\ ReturnsSlot(r, request.customer_gpu_count)

----------------------------------------------------------------------------
(* C2 *)

\* C2: every configuration returned has gpu_count <= the runtime-visible GPU
\* count probed in the same call, which is the available_gpus it reports.
C2_GpuCountWithinVisible ==
    (Done /\ result # None) =>
        /\ result.available_gpus = probe.vllm_gpus
        /\ result.gpu_count <= result.available_gpus

\* a configuration is returned for a customer GPU count above the visible count
C2_Witness ==
    /\ Done
    /\ result # None
    /\ request.customer_gpu_count > probe.vllm_gpus
    /\ result.gpu_count = probe.vllm_gpus

----------------------------------------------------------------------------
(* C3, C4, C5: the fallback ladders as specified *)

\* the ladder orders of the specification
LadderGpuOrder == <<8, 4, 2, 1>>
LadderPrecisionOrder == <<"bf16", "fp16", "fp8">>

\* positions of ladder A: GPU counts within the visible count, other than the
\* candidate, enabled at the candidate precision
LadderAHits ==
    { i \in 1..Len(LadderGpuOrder) :
        /\ LadderGpuOrder[i] <= probe.vllm_gpus
        /\ LadderGpuOrder[i] # candidate.gpu_count
        /\ EnabledAt(candidate.precision, LadderGpuOrder[i]) }

\* positions <<precision, gpu>> of ladder B that are enabled
LadderBHits ==
    { ij \in (1..Len(LadderPrecisionOrder)) \X (1..Len(LadderGpuOrder)) :
        /\ LadderPrecisionOrder[ij[1]] # candidate.precision
        /\ LadderGpuOrder[ij[2]] <= probe.vllm_gpus
        /\ EnabledAt(LadderPrecisionOrder[ij[1]], LadderGpuOrder[ij[2]]) }

\* the least position of a non-empty set of positions, in scanning order
FirstOf(S) == CHOOSE i \in S : \A j \in S : i <= j
FirstPair(S) ==
    CHOOSE ij \in S : \A kl \in S :
        ij[1] < kl[1] \/ (ij[1] = kl[1] /\ ij[2] <= kl[2])

ExactMatch == EnabledAt(candidate.precision, candidate.gpu_count)

\* C3: when the exact match at (candidate_precision, candidate_gpu_count)
\* fails, the call keeps the precision and returns the first enabled slot in
\* the order 8, 4, 2, 1 among the GPU counts <= runtime_visible other than the
\* candidate, with gpu_count the value found.
C3_LadderA ==
    (Done /\ ~ExactMatch /\ LadderAHits # {}) =>
        ReturnsEnabledSlotAt(candidate.precision, LadderGpuOrder[FirstOf(LadderAHits)])

\* C4: when neither the exact match nor ladder A finds an enabled slot, the
\* call returns the first enabled slot scanning the precisions bf16, fp16, fp8
\* (candidate skipped) and, for each, the GPU counts 8, 4, 2, 1 within
\* runtime_visible, with precision and gpu_count those of that slot.
C4_LadderB ==
    (Done /\ ~ExactMatch /\ LadderAHits = {} /\ LadderBHits # {}) =>
        ReturnsEnabledSlotAt(LadderPrecisionOrder[FirstPair(LadderBHits)[1]],
                             LadderGpuOrder[FirstPair(LadderBHits)[2]])

\* C5: the call returns None exactly when no combination covered by the exact
\* match, ladder A and ladder B is enabled for the requested backend.
C5_NotFoundOnlyWhenNothingEnabled ==
    Done => (result = None <=> (~ExactMatch /\ LadderAHits = {} /\ LadderBHits = {}))

----------------------------------------------------------------------------
(* C6 *)

\* the (recipe_id, gpu_count, precision) triple of a returned value
Triple(config) ==
    IF config = None THEN None
    ELSE [recipe_id |-> config.recipe_id, gpu_count |-> config.gpu_count,
          precision |-> config.precision]

\* every order in which the same recipe files can be enumerated
Reorderings(files) ==
    { q \in [1..Len(files) -> Range(files)] : Range(q) = Range(files) }

\* the call's triple is what the same call returns over the files in any order
SameTripleInAnyOrder ==
    \A q \in Reorderings(recipe_files) :
        Triple(get_optimal_configuration(q, models, request.model_id,
                   request.customer_gpu_count, request.customer_precision,
                   request.backend, probe.vllm_gpus).config) = Triple(result)

\* C6 (as claimed): the same arguments over the same catalog contents and the
\* same probe results return the same (recipe_id, gpu_count, precision),
\* whatever the order in which the recipe files are enumerated.
C6_Original == Done => SameTripleInAnyOrder

\* no two recipe files of the requested model share a recipe_id or a precision
DistinctRecipes ==
    \A r1, r2 \in OfModel :
        r1 # r2 => (r1.recipe_id # r2.recipe_id /\ r1.precision # r2.precision)

\* C6 (amended): the same arguments over the same catalog contents and the
\* same probe results return the same (recipe_id, gpu_count, precision)
\* whatever the enumeration order of the recipe files, provided no two recipe
\* files of the model share a recipe_id or a precision.
C6_OrderIndependent == (Done /\ DistinctRecipes) => SameTripleInAnyOrder

\* a configuration is returned from a catalog of two recipes of the model
C6_Witness ==
    /\ Done
    /\ DistinctRecipes
    /\ Cardinality(OfModel) >= 2
    /\ Cardinality(Reorderings(recipe_files)) >= 2
    /\ result # None

----------------------------------------------------------------------------
(* C7 *)

\* C7: a customer GPU count above runtime_visible makes the candidate GPU
\* count exactly runtime_visible, and the call returns what a request for
\* runtime_visible GPUs returns: the clamp alone is never an error or a
\* not-found.
C7_ClampToVisible ==
    (Done /\ request.customer_gpu_count # NoneGpu
          /\ request.customer_gpu_count > probe.vllm_gpus) =>
        /\ candidate.gpu_count = probe.vllm_gpus
        /\ result = get_optimal_configuration(recipe_files, models,
                        request.model_id, probe.vllm_gpus,
                        request.customer_precision, request.backend,
                        probe.vllm_gpus).config

\* a clamped request is answered at the visible GPU count
C7_Witness ==
    /\ Done
    /\ request.customer_gpu_count > probe.vllm_gpus
    /\ candidate.gpu_count = probe.vllm_gpus
    /\ result # None
    /\ result.gpu_count = probe.vllm_gpus
    /\ ExactMatch

----------------------------------------------------------------------------
(* C8, C9: the heuristics, over every size class *)

\* the size class of the requested model, "unknown" without a catalog entry
RequestedSize ==
    IF request.model_id \in DOMAIN models
    THEN models[request.model_id].size ELSE "unknown"

\* the GPU count the specification gives for a size class and runtime_visible R
HeuristicGpuCount(size, R) ==
    CASE size \in {"7B", "8B"}   -> 1
      [] size \in {"13B", "14B"} -> IF R >= 2 THEN 2 ELSE R
      [] size \in {"32B", "34B"} -> IF R >= 4 THEN 4 ELSE R
      [] size \in {"70B", "72B"} -> IF R >= 8 THEN 8 ELSE R
      [] OTHER -> R

\* C8: without a customer GPU count the candidate GPU count is 1 for 7B/8B,
\* 2 (if R >= 2, else R) for 13B/14B, 4 (if R >= 4, else R) for 32B/34B,
\* 8 (if R >= 8, else R) for 70B/72B and R for any other or unknown size.
C8_SizeClassGpuCount ==
    (Done /\ request.customer_gpu_count = NoneGpu) =>
        candidate.gpu_count = HeuristicGpuCount(RequestedSize, probe.vllm_gpus)

\* a 32B model with R = 4 and no overrides is resolved at 4 GPUs, bf16
C8_Witness ==
    /\ Done
    /\ request.customer_gpu_count = NoneGpu
    /\ request.customer_precision = NonePrecision
    /\ RequestedSize = "32B"
    /\ probe.vllm_gpus = 4
    /\ candidate.gpu_count = 4
    /\ result # None
    /\ result.gpu_count = 4
    /\ result.precision = "bf16"

\* C9: the candidate precision is the customer's precision when one is given,
\* otherwise fp16 for 7B/8B and bf16 for every other size class, models
\* absent from the model catalog included.
C9_CandidatePrecision ==
    Done =>
        candidate.precision =
            IF request.customer_precision # NonePrecision
            THEN request.customer_precision
            ELSE IF RequestedSize \in {"7B", "8B"} THEN "fp16" ELSE "bf16"

\* a model absent from the model catalog, no precision given, gets bf16
C9_Witness ==
    /\ Done
    /\ request.customer_precision = NonePrecision
    /\ request.model_id \notin DOMAIN models
    /\ candidate.precision = "bf16"

----------------------------------------------------------------------------
(* C10 *)

\* the requested model has no model-catalog entry and no recipe
UnknownToCatalog == request.model_id \notin DOMAIN models /\ OfModel = {}

----------------------------------------------------------------------------
(* generate_config called with a recipe of the catalog, as the tests and   *)
(* the scripts do                                                          *)

\* entries a slot's args can hold
ArgPool ==
    { Arg(Key(0, "model"), "Org/Model"),
      Arg(Key(2, "tensor-parallel-size"), "2"),
      Arg(Key(1, "dtype"), "bfloat16"),
      Arg(Key(0, "port"), "9999"),
      Arg(Key(1, "port"), "9999"),
      Arg(Key(2, "port"), "8000"),
      Arg(Key(3, "port"), "9999"),
      Arg(Key(0, "enable-prefix-caching"), "true"),
      Arg(Key(2, "enable-prefix-caching"), "false"),
      Arg(Key(0, "trust-remote-code"), "true") }

\* the args of a slot: up to MaxArgs entries in declared order, no key twice
ArgLists ==
    UNION { { a \in [1..n -> ArgPool] : \A i, j \in 1..n : i # j => a[i].key # a[j].key }
            : n \in 0..MaxArgs }

\* a slot that carries args, and one written without args
ArgSlot(args, en) == [enabled |-> en, args |-> args]
PlainSlot == [enabled |-> TRUE]

\* `<backend>_serve` of the recipe below: 1_gpu enabled, 2_gpu disabled,
\* 4_gpu without `enabled`, 8_gpu enabled and without args
ArgServe(args) ==
    [g \in {1, 2, 4, 8} |->
        IF g = 1 THEN ArgSlot(args, TRUE)
        ELSE IF g = 2 THEN ArgSlot(args, FALSE)
        ELSE IF g = 4 THEN [args |-> args]
        ELSE PlainSlot]

\* a recipe whose slots carry args, for vllm, sglang and a backend the
\* generator does not know
ArgRecipe(args) ==
    RecipeFile("m-args", KnownModel, "bf16",
               [b \in {"vllm", "sglang", "tgi"} |-> ArgServe(args)])

ArgEnumerations == { <<ArgRecipe(args)>> : args \in ArgLists }

GenerateGpuCounts == {1, 2, 3, 4, 8}
\* valid_precisions of validate_inputs
GeneratePrecisions == {"fp16", "bf16", "fp8", "int8", "int4"}
GenerateBackends == {"vllm", "sglang", "tgi", "trt"}
Ports == {8000, 9999}

InitGenerate ==
    /\ Catalog({[m \in {KnownModel} |-> ModelFile(m, "7B")]}, ArgEnumerations)
    /\ Idle

\* generate_config from its call to its return or raise
GenerateConfig ==
    /\ pc = "idle"
    /\ pc' = "generated"
    /\ \E i \in 1..Len(recipe_files), gpu_count \in GenerateGpuCounts,
          precision \in GeneratePrecisions, backend \in GenerateBackends,
          port \in Ports :
            /\ request' = [recipe |-> recipe_files[i], gpu_count |-> gpu_count,
                           precision |-> precision, backend |-> backend,
                           port |-> port]
            /\ deployment' = generate_config(recipe_files[i], gpu_count, precision,
                                             backend, port)
    /\ UNCHANGED <<managers, models, recipe_files, probe, candidate, result, attempted>>

\* the caller takes the configuration, or handles the exception
ReturnConfig ==
    /\ pc = "generated"
    /\ pc' = "idle"
    /\ request' = NoRequest
    /\ deployment' = None
    /\ UNCHANGED <<managers, models, recipe_files, probe, candidate, result, attempted>>

NextGenerate == GenerateConfig \/ ReturnConfig

SpecGenerate == InitGenerate /\ [][NextGenerate]_vars

----------------------------------------------------------------------------
(* convert_args_to_command_line *)

ConvertKeys ==
    { Key(0, "enable-prefix-caching"), Key(2, "trust-remote-code"),
      Key(1, "enforce-eager"), Key(0, "port"), Key(2, "model") }

ConvertValues ==
    { PyBool(TRUE), PyBool(FALSE), PyInt(1), PyInt(0), PyInt(8000),
      PyStr(<<"t", "r", "u", "e">>), PyStr(<<" ", "Y", "E", "S", " ">>),
      PyStr(<<"y", "e", "s", " ", "1">>), PyStr(<<"f", "a", "l", "s", "e">>),
      PyStr(<<>>) }

ConvertArgs == { Arg(k, v) : k \in ConvertKeys, v \in ConvertValues }

\* an args map: up to MaxArgs entries in declared order, no key twice
ConvertArgLists ==
    UNION { { a \in [1..n -> ConvertArgs] : \A i, j \in 1..n : i # j => a[i].key # a[j].key }
            : n \in 0..MaxArgs }

\* convert_args_to_command_line(args_dict)
ConvertArgsToCommandLine ==
    /\ pc = "idle"
    /\ pc' = "converted"
    /\ \E args \in ConvertArgLists :
            deployment' = [args |-> args, args_list |-> convert_args_to_command_line(args)]
    /\ UNCHANGED <<managers, models, recipe_files, request, probe, candidate, result, attempted>>

\* the caller takes the command line
ReturnCommandLine ==
    /\ pc = "converted"
    /\ pc' = "idle"
    /\ deployment' = None
    /\ UNCHANGED <<managers, models, recipe_files, request, probe, candidate, result, attempted>>

NextConvert == ConvertArgsToCommandLine \/ ReturnCommandLine

InitConvert == Catalog({[m \in {KnownModel} |-> ModelFile(m, "7B")]}, {<<>>}) /\ Idle

SpecConvert == InitConvert /\ [][NextConvert]_vars

----------------------------------------------------------------------------
(* AIMDockerManager.launch_container and AIMEndpointManager *)

ContainerNames == {"aim-a", "aim-b"}
ContainerIds == {"c1", "c2"}

\* seconds a poll takes before its result is there
PollDurations == {0, 2}

\* docker ps fails, lists nothing, or prints a status line
PsOutcomes ==
    { Ps(FALSE, <<>>), Ps(TRUE, <<>>), Ps(TRUE, <<"Up", "3", "seconds">>),
      Ps(TRUE, <<"Restarting", "(1)">>) }

\* the health request is refused or times out, or is answered
Responses == { Response("RequestException", 0), Response("", 503), Response("", 200) }

InitManagers == Catalog({[m \in {KnownModel} |-> ModelFile(m, "7B")]}, {<<>>}) /\ Idle

\* one turn of a polling loop whose poll took duration and observed or not
Poll(observed, duration, returned_pc) ==
    /\ in_time(wait, clock)
    /\ IF observed
       THEN /\ wait' = [wait EXCEPT !.observed = TRUE, !.ready = TRUE]
            /\ clock' = clock + duration
            /\ pc' = returned_pc
       ELSE /\ wait' = [wait EXCEPT !.observed = FALSE]
            /\ clock' = next_poll_time(clock, duration)
            /\ pc' = pc

\* the loop's test fails: `return False`
Deadline(returned_pc) ==
    /\ ~in_time(wait, clock)
    /\ pc' = returned_pc
    /\ UNCHANGED <<wait, clock>>

\* launch_container up to the return of `docker run`
LaunchContainer ==
    /\ pc = "idle"
    /\ \E container_name \in ContainerNames, run_succeeds \in BOOLEAN :
            IF run_succeeds
            THEN /\ docker' = [docker EXCEPT !.container_name = container_name, !.run = "ok"]
                 /\ wait' = begin_wait("container", clock, ContainerTimeout)
                 /\ pc' = "container_polling"
            ELSE /\ docker' = [docker EXCEPT !.container_name = container_name,
                                   !.run = "failed",
                                   !.returned = [success |-> FALSE, error |-> "docker run"]]
                 /\ wait' = wait
                 /\ pc' = "container_returned"
    /\ UNCHANGED <<selector_state, cache, engine, clock, endpoints, endpoint_call>>

\* one turn of _wait_for_container_ready
PollContainer ==
    /\ pc = "container_polling"
    /\ \E ps \in PsOutcomes, duration \in PollDurations :
            Poll(observes_up(ps), duration, "container_waited")
    /\ docker' = [docker EXCEPT !.polled = TRUE]
    /\ UNCHANGED <<selector_state, cache, engine, endpoints, endpoint_call>>

\* _wait_for_container_ready gives up
ContainerDeadline ==
    /\ pc = "container_polling"
    /\ Deadline("container_waited")
    /\ UNCHANGED <<selector_state, cache, engine, docker, endpoints, endpoint_call>>

\* launch_container after _wait_for_container_ready: stop_container when the
\* container is not ready
ContainerWaited ==
    /\ pc = "container_waited"
    /\ pc' = "container_returned"
    /\ docker' = [docker EXCEPT
                    !.stops = IF wait.ready THEN @ ELSE Append(@, docker.container_name),
                    !.returned = container_info(wait.ready, docker.container_name)]
    /\ UNCHANGED <<selector_state, cache, engine, clock, wait, endpoints, endpoint_call>>

\* launch_container returns its dict
ReturnContainer ==
    /\ pc = "container_returned"
    /\ pc' = "idle"
    /\ clock' = 0
    /\ wait' = NoWait
    /\ docker' = NoLaunch
    /\ UNCHANGED <<selector_state, cache, engine, endpoints, endpoint_call>>

\* start_endpoint up to its wait
StartEndpoint ==
    /\ pc = "idle"
    /\ pc' = "endpoint_polling"
    /\ \E container_id \in ContainerIds, port \in Ports :
            endpoint_call' = [operation |-> "start_endpoint", container_id |-> container_id,
                              port |-> port, returned |-> None]
    /\ wait' = begin_wait("endpoint", clock, EndpointTimeout)
    /\ UNCHANGED <<selector_state, cache, engine, clock, docker, endpoints>>

\* one turn of _wait_for_endpoint_ready
PollEndpoint ==
    /\ pc = "endpoint_polling"
    /\ \E response \in Responses, duration \in PollDurations :
            Poll(observes_ready(response), duration, "endpoint_waited")
    /\ UNCHANGED <<selector_state, cache, engine, docker, endpoints, endpoint_call>>

\* _wait_for_endpoint_ready gives up
EndpointDeadline ==
    /\ pc = "endpoint_polling"
    /\ Deadline("endpoint_waited")
    /\ UNCHANGED <<selector_state, cache, engine, docker, endpoints, endpoint_call>>

\* start_endpoint after its wait: the endpoint is registered when ready
EndpointWaited ==
    /\ pc = "endpoint_waited"
    /\ pc' = "endpoint_returned"
    /\ IF wait.ready
       THEN /\ endpoints' = register(endpoints, endpoint_call.container_id,
                                     endpoint_info(endpoint_call.container_id,
                                                   endpoint_call.port))
            /\ endpoint_call' = [endpoint_call EXCEPT !.returned = [success |-> TRUE]]
       ELSE /\ endpoints' = endpoints
            /\ endpoint_call' = [endpoint_call EXCEPT !.returned = [success |-> FALSE]]
    /\ UNCHANGED <<selector_state, cache, engine, clock, wait, docker>>

\* stop_endpoint
StopEndpoint ==
    /\ pc = "idle"
    /\ pc' = "endpoint_returned"
    /\ \E container_id \in ContainerIds :
            IF container_id \in DOMAIN endpoints
            THEN /\ endpoints' = mark_stopped(endpoints, container_id)
                 /\ endpoint_call' = [operation |-> "stop_endpoint",
                                      container_id |-> container_id, port |-> 0,
                                      returned |-> [success |-> TRUE]]
            ELSE /\ endpoints' = endpoints
                 /\ endpoint_call' = [operation |-> "stop_endpoint",
                                      container_id |-> container_id, port |-> 0,
                                      returned |-> [success |-> FALSE]]
    /\ UNCHANGED <<selector_state, cache, engine, clock, wait, docker>>

\* cleanup_endpoints
CleanupEndpoints ==
    /\ pc = "idle"
    /\ pc' = "endpoint_returned"
    /\ endpoints' = NoEndpoints
    /\ endpoint_call' = [operation |-> "cleanup_endpoints", container_id |-> "", port |-> 0,
                         returned |-> [success |-> TRUE, cleaned |-> DOMAIN endpoints,
                                       total |-> Cardinality(DOMAIN endpoints)]]
    /\ UNCHANGED <<selector_state, cache, engine, clock, wait, docker>>

\* list_endpoints
ListEndpoints ==
    /\ pc = "idle"
    /\ pc' = "endpoint_returned"
    /\ endpoint_call' = [operation |-> "list_endpoints", container_id |-> "", port |-> 0,
                         returned |-> [success |-> TRUE,
                                       endpoints |-> dict_values(endpoints),
                                       count |-> Cardinality(DOMAIN endpoints)]]
    /\ UNCHANGED <<selector_state, cache, engine, clock, wait, docker, endpoints>>

\* the endpoint manager's call returns its dict; the registry stays
ReturnEndpoint ==
    /\ pc = "endpoint_returned"
    /\ pc' = "idle"
    /\ clock' = 0
    /\ wait' = NoWait
    /\ endpoint_call' = NoEndpointCall
    /\ UNCHANGED <<selector_state, cache, engine, docker, endpoints>>

NextManagers ==
    \/ LaunchContainer
    \/ PollContainer
    \/ ContainerDeadline
    \/ ContainerWaited
    \/ ReturnContainer
    \/ StartEndpoint
    \/ PollEndpoint
    \/ EndpointDeadline
    \/ EndpointWaited
    \/ StopEndpoint
    \/ CleanupEndpoints
    \/ ListEndpoints
    \/ ReturnEndpoint

\* each loop runs on: a poll and its sleep return, and the test follows
SpecManagers == InitManagers /\ [][NextManagers]_vars /\ WF_vars(NextManagers)

----------------------------------------------------------------------------
(* AIMCacheManager *)

\* "a/b", "a--b", "c/d", "e/f"
CacheModelIds ==
    { <<"a", "/", "b">>, <<"a", "-", "-", "b">>, <<"c", "/", "d">>, <<"e", "/", "f">> }

InitCache == Catalog({[m \in {KnownModel} |-> ModelFile(m, "7B")]}, {<<>>}) /\ Idle

AddModelToCache ==
    /\ pc = "idle"
    /\ pc' = "cache_returned"
    /\ \E model_id \in CacheModelIds, copied \in BOOLEAN :
            cache' = add_model_to_cache(cache, model_id, copied)
    /\ UNCHANGED <<selector_state, engine, clock, wait, docker, endpoints, endpoint_call>>

RemoveModelFromCache ==
    /\ pc = "idle"
    /\ pc' = "cache_returned"
    /\ \E model_id \in CacheModelIds :
            cache' = remove_model_from_cache(cache, model_id)
    /\ UNCHANGED <<selector_state, engine, clock, wait, docker, endpoints, endpoint_call>>

\* the call returns; the index and the directories stay
ReturnCache ==
    /\ pc = "cache_returned"
    /\ pc' = "idle"
    /\ cache' = [cache EXCEPT !.call = NoCacheCall]
    /\ UNCHANGED <<selector_state, engine, clock, wait, docker, endpoints, endpoint_call>>

NextCache == AddModelToCache \/ RemoveModelFromCache \/ ReturnCache

SpecCache == InitCache /\ [][NextCache]_vars

----------------------------------------------------------------------------
(* The detection tiers *)

DetectCounts == {0, 1, 4}

\* a tool is missing, times out, exits non-zero, or lists some GPUs
ToolOutcomes ==
    { Outcome("FileNotFoundError", 0, 0), Outcome("TimeoutExpired", 0, 0),
      Outcome("", 1, 0) }
      \cup { Outcome("", 0, n) : n \in DetectCounts }

\* torch cannot be imported, or reports cuda unavailable, or counts devices
TorchOutcomes ==
    { Outcome("ImportError", 0, 0) } \cup { Outcome("", 0, n) : n \in DetectCounts }

\* CUDA_VISIBLE_DEVICES unset, "", "0", "0,1"
Environments ==
    { Environ(FALSE, <<>>), Environ(TRUE, <<>>), Environ(TRUE, <<0>>), Environ(TRUE, <<0, 1>>) }

\* a tier has run: its methods' outcomes in the tier's order, and the result
Detection(tier, methods, env, detected) ==
    /\ pc' = "detected"
    /\ probe' = [tier |-> tier, methods |-> methods, env |-> env,
                 count |-> detected.count, tried |-> detected.tried]
    /\ UNCHANGED <<managers, models, recipe_files, request, candidate, result, attempted, deployment>>

DetectAvailableGpus ==
    /\ pc = "idle"
    /\ \E rocm \in ToolOutcomes, nvidia \in ToolOutcomes, env \in Environments :
            Detection("host", <<rocm, nvidia>>, env,
                      detect_available_gpus(rocm, nvidia, env))

DetectContainerGpus ==
    /\ pc = "idle"
    /\ \E torch \in TorchOutcomes, rocm \in ToolOutcomes, nvidia \in ToolOutcomes,
          env \in Environments :
            Detection("container", <<torch, rocm, nvidia>>, env,
                      detect_container_gpus(torch, rocm, nvidia, env))

DetectVllmGpus ==
    /\ pc = "idle"
    /\ \E python \in ToolOutcomes, torch \in TorchOutcomes, rocm \in ToolOutcomes,
          nvidia \in ToolOutcomes, env \in Environments :
            Detection("runtime", <<python, torch, rocm, nvidia>>, env,
                      vllm_gpus_from(pytorch_count_of(python),
                                     detect_container_gpus(torch, rocm, nvidia, env)))

\* the tier returns its count
ReturnCount ==
    /\ pc = "detected"
    /\ pc' = "idle"
    /\ probe' = NoProbe
    /\ UNCHANGED <<managers, models, recipe_files, request, candidate, result, attempted, deployment>>

NextDetect == DetectAvailableGpus \/ DetectContainerGpus \/ DetectVllmGpus \/ ReturnCount

InitDetect == Catalog({[m \in {KnownModel} |-> ModelFile(m, "7B")]}, {<<>>}) /\ Idle

SpecDetect == InitDetect /\ [][NextDetect]_vars

----------------------------------------------------------------------------
(* AIMEngine.launch_model *)

LaunchEnumerations ==
    { <<>>, <<RecipeBf16>>, <<RecipeBf16, RecipeFp16>>, <<RecipeFp8, RecipeOther>> }

LaunchModels == {KnownModel, "model"}
LaunchGpuCounts == {NoneGpu, 0, 1, 2, 4, 8, 9}
LaunchPrecisions == {NonePrecision, "bf16", "fp16", "int8", "invalid"}
LaunchBackends == {"vllm", "sglang", "tgi"}

InitLaunch ==
    /\ Catalog({[m \in {KnownModel} |-> ModelFile(m, "32B")]}, LaunchEnumerations)
    /\ Idle

\* launch_model is entered: invalid inputs return at once, valid ones go on
\* to get_optimal_configuration
LaunchModel ==
    /\ pc = "idle"
    /\ \E model_id \in LaunchModels, gpu_count \in LaunchGpuCounts,
          precision \in LaunchPrecisions, backend \in LaunchBackends, port \in Ports :
            /\ request' = [model_id |-> model_id, customer_gpu_count |-> gpu_count,
                           customer_precision |-> precision, backend |-> backend,
                           port |-> port, operation |-> "launch_model"]
            /\ IF validate_inputs(model_id, gpu_count, precision, backend)
               THEN pc' = "probing" /\ deployment' = deployment
               ELSE pc' = "launched" /\ deployment' = Failure("Invalid inputs")
    /\ UNCHANGED <<managers, models, recipe_files, probe, candidate, result, attempted>>

\* AIMEngine.get_optimal_configuration is entered: invalid inputs return at
\* once, valid ones go on to the selector's get_optimal_configuration
EngineOptimalConfiguration ==
    /\ pc = "idle"
    /\ \E model_id \in LaunchModels, gpu_count \in LaunchGpuCounts,
          precision \in LaunchPrecisions, backend \in LaunchBackends :
            /\ request' = [model_id |-> model_id, customer_gpu_count |-> gpu_count,
                           customer_precision |-> precision, backend |-> backend,
                           operation |-> "get_optimal_configuration"]
            /\ IF validate_inputs(model_id, gpu_count, precision, backend)
               THEN pc' = "probing" /\ deployment' = deployment
               ELSE /\ pc' = "answered"
                    /\ deployment' = [success |-> FALSE, error |-> "Invalid inputs"]
    /\ UNCHANGED <<managers, models, recipe_files, probe, candidate, result, attempted>>

\* the end of AIMEngine.get_optimal_configuration
Answer ==
    /\ pc = "done"
    /\ request.operation = "get_optimal_configuration"
    /\ pc' = "answered"
    /\ deployment' = optimal_answer(result)
    /\ UNCHANGED <<managers, models, recipe_files, request, probe, candidate, result, attempted>>

\* steps 2 to 4 of launch_model; cache_enabled is the engine's attribute and
\* cached what is_model_cached reports
Deploy ==
    /\ pc = "done"
    /\ request.operation = "launch_model"
    /\ pc' = "launched"
    /\ \E cache_enabled \in BOOLEAN, cached \in BOOLEAN :
            deployment' = launch_optimal(result, request.model_id, request.port,
                                         cache_enabled, cached)
    /\ UNCHANGED <<managers, models, recipe_files, request, probe, candidate, result, attempted>>

\* launch_model or AIMEngine.get_optimal_configuration returns its dict
ReturnLaunch ==
    /\ pc \in {"launched", "answered"}
    /\ pc' = "idle"
    /\ request' = NoRequest
    /\ probe' = NoProbe
    /\ candidate' = NoCandidate
    /\ result' = None
    /\ attempted' = <<>>
    /\ deployment' = None
    /\ UNCHANGED <<managers, models, recipe_files>>

NextLaunch ==
    \/ LaunchModel
    \/ EngineOptimalConfiguration
    \/ Probe
    \/ Resolve
    \/ Deploy
    \/ Answer
    \/ ReturnLaunch

SpecLaunch == InitLaunch /\ [][NextLaunch]_vars

----------------------------------------------------------------------------
(* The engine from its construction on *)

InitEngine ==
    /\ Catalog({[m \in {KnownModel} |-> ModelFile(m, "32B")]}, LaunchEnumerations)
    /\ pc = "unbuilt"
    /\ engine = NoEngine
    /\ AtRest

\* AIMEngine(config_dir, cache_dir): the caller holds an engine when the
\* constructor returns, and none when it raises
Construct ==
    /\ pc = "unbuilt"
    /\ \E docker_available \in BOOLEAN, cache_importable \in BOOLEAN,
          cache_instantiable \in BOOLEAN :
            engine' = init_engine(docker_available, cache_importable, cache_instantiable)
    /\ pc' = IF engine'.raised = "" THEN "idle" ELSE "construct_raised"
    /\ UNCHANGED <<selector_state, clock, wait, docker, endpoints, endpoint_call, cache>>

\* the caller is left with the exception and tries anew
ConstructRaised ==
    /\ pc = "construct_raised"
    /\ pc' = "unbuilt"
    /\ engine' = NoEngine
    /\ UNCHANGED <<selector_state, clock, wait, docker, endpoints, endpoint_call, cache>>

NextEngine ==
    \/ Construct
    \/ ConstructRaised
    \/ LaunchModel
    \/ EngineOptimalConfiguration
    \/ Probe
    \/ Resolve
    \/ Deploy
    \/ Answer
    \/ ReturnLaunch

SpecEngine == InitEngine /\ [][NextEngine]_vars

----------------------------------------------------------------------------
(* C11, C12: select_recipe on a GPU count or precision the model lacks *)

Selected == pc = "selected"

\* no recipe of the requested model defines a slot at gpu_count, whatever the backend
NoSlotAt(gpu_count) ==
    \A r \in OfModel : \A b \in DOMAIN r.serve : gpu_count \notin DOMAIN r.serve[b]

\* no recipe of the requested model carries this precision
NoRecipeOf(precision) == \A r \in OfModel : r.precision # precision

\* C11: select_recipe(model, gpu_count, precision, backend) returns None when
\* gpu_count is a value for which no recipe of the model defines a slot
\* (e.g. 10), even though the model has enabled slots at other GPU counts for
\* that precision and backend.
C11_NoneForUndefinedGpuCount ==
    (Selected /\ request.customer_gpu_count # NoneGpu
              /\ NoSlotAt(request.customer_gpu_count)) => result = None

\* C12: select_recipe(model, gpu_count, precision, backend) returns None when
\* precision is a value that no recipe of the model carries (e.g. "invalid"),
\* even though the model has recipes of other precisions enabled at that GPU
\* count and backend.
C12_NoneForUnknownPrecision ==
    (Selected /\ request.customer_precision # NonePrecision
              /\ NoRecipeOf(request.customer_precision)) => result = None

----------------------------------------------------------------------------
(* C13 *)

\* the GPU counts that occur as `<N>_gpu` keys, asked for or tried
GpuKeys == {1, 2, 3, 4, 8}

\* the returned configuration is the enabled slot (returned backend, returned
\* gpu_count) of the returned recipe
ReturnsUsableSlot ==
    \E r \in OfModel :
        /\ r.recipe_id = result.recipe_id
        /\ SlotIsEnabled(r, result.gpu_count, result.backend)
        /\ result.config = r.serve[result.backend][result.gpu_count]

\* every recipe find_matching_recipes returned to this call is enabled at the
\* (backend, gpu_count) it was asked for
MatchesAreUsable ==
    \A pg \in Range(attempted) :
        \A r \in Range(find_matching_recipes(recipe_files, request.model_id, pg[2],
                                              pg[1], request.backend)) :
            SlotIsEnabled(r, pg[2], request.backend)

\* every slot get_recipe_config yields for a recipe of the catalog is enabled
ConfigsAreUsable ==
    \A r \in Range(recipe_files) : \A g \in GpuKeys : \A b \in Backends :
        get_recipe_config(r, g, b) # None =>
            (SlotIsEnabled(r, g, b) /\ get_recipe_config(r, g, b) = r.serve[b][g])

\* C13: every configuration returned by get_optimal_configuration refers to a
\* slot that is present and has enabled == true at (returned backend,
\* returned gpu_count) in the returned recipe; a slot that is absent, disabled
\* or without an `enabled` field is never returned by
\* get_optimal_configuration, find_matching_recipes or get_recipe_config.
C13_OnlyEnabledSlots ==
    Done => /\ (result # None => ReturnsUsableSlot)
            /\ MatchesAreUsable
            /\ ConfigsAreUsable

\* the slot asked for is present but not enabled, and the call returns the
\* same recipe at another GPU count
C13_Witness ==
    /\ Done
    /\ result # None
    /\ \E r \in OfModel :
          /\ r.precision = request.customer_precision
          /\ request.backend \in DOMAIN r.serve
          /\ request.customer_gpu_count \in DOMAIN r.serve[request.backend]
          /\ ~SlotIsEnabled(r, request.customer_gpu_count, request.backend)
          /\ result.recipe_id = r.recipe_id
          /\ result.gpu_count # request.customer_gpu_count
    /\ ReturnsUsableSlot

----------------------------------------------------------------------------
(* Vocabulary of the properties of generate_config *)

Generated == pc = "generated"

\* generate_config returned a configuration
Configured == Generated /\ ~IsRaised(deployment)

\* the slot generate_config was asked for
AskedSlot == request.recipe.serve[request.backend][request.gpu_count]

\* the slot asked for is present in the recipe
AskedSlotPresent ==
    /\ request.backend \in DOMAIN request.recipe.serve
    /\ request.gpu_count \in DOMAIN request.recipe.serve[request.backend]

\* the slot asked for is present with enabled == true
AskedSlotEnabled ==
    /\ AskedSlotPresent
    /\ "enabled" \in DOMAIN AskedSlot
    /\ AskedSlot.enabled = TRUE

\* the args of the slot asked for, none when the slot has no args
AskedArgs == IF "args" \in DOMAIN AskedSlot THEN AskedSlot.args ELSE <<>>

\* the text of a key without its leading dashes
Bare(key) == key.name

\* the word of the flag --name
DashDash(name) == [flag |-> [dashes |-> 2, name |-> name]]

\* the positions of a command that hold the flag --name
FlagPositions(command, name) ==
    { i \in 1..Len(command.words) : command.words[i] = DashDash(name) }

\* position i of a command holds a flag with no value after it
IsBareFlag(command, i) ==
    i = Len(command.words) \/ "value" \notin DOMAIN command.words[i + 1]

----------------------------------------------------------------------------
(* C14 *)

\* flags that take no value (some of those listed by the command converter)
BooleanOnlyFlags == {"enable-prefix-caching", "trust-remote-code"}

\* the entry i of the args is the only one written for its flag
OnlyArgOfFlag(args, i) ==
    \A j \in 1..Len(args) : args[j].key.name = args[i].key.name => j = i

\* C14: in the command produced by generate_config, a slot arg whose key is
\* a boolean-only flag (e.g. enable-prefix-caching) is emitted as the bare
\* flag with no value when its value is "true", and is omitted from the
\* command entirely when its value is "false".
C14_BooleanFlagEmission ==
    Configured =>
        \A i \in 1..Len(AskedArgs) :
            ( /\ AskedArgs[i].key.name \in BooleanOnlyFlags
              /\ AskedArgs[i].key.dashes <= 2
              /\ OnlyArgOfFlag(AskedArgs, i) )
            => IF AskedArgs[i].value = "true"
               THEN \E q \in FlagPositions(deployment.command, AskedArgs[i].key.name) :
                        IsBareFlag(deployment.command, q)
               ELSE FlagPositions(deployment.command, AskedArgs[i].key.name) = {}

----------------------------------------------------------------------------
(* C15 *)

\* the values the command gives the flag --port
PortValues(command) ==
    { IF IsBareFlag(command, q) THEN None ELSE command.words[q + 1]
      : q \in FlagPositions(command, "port") }

----------------------------------------------------------------------------
(* C16 *)

\* the entrypoint of a backend the generator knows
EntrypointOf(backend) ==
    IF backend = "vllm" THEN [entrypoint |-> "python -m vllm.entrypoints.openai.api_server"]
    ELSE [entrypoint |-> "python -m sglang.launch_server"]

\* the command is the entrypoint and then, for each arg in declared order, one
\* flag and its value
OneFlagPerArg ==
    /\ Len(deployment.command.words) = 1 + 2 * Len(AskedArgs)
    /\ deployment.command.words[1] = EntrypointOf(request.backend)
    /\ \A i \in 1..Len(AskedArgs) :
          /\ "flag" \in DOMAIN deployment.command.words[2 * i]
          /\ deployment.command.words[2 * i].flag.name = AskedArgs[i].key.name
          /\ "value" \in DOMAIN deployment.command.words[2 * i + 1]

\* the flag of arg i is the single form --key
NormalizedFlag(i) == deployment.command.words[2 * i] = DashDash(AskedArgs[i].key.name)

UnsupportedBackendRaises ==
    (Generated /\ request.backend \notin {"vllm", "sglang"}) => IsRaised(deployment)

----------------------------------------------------------------------------
(* C17 *)

BackendConditional == {"VLLM_DISABLE_CUSTOM_ALLREDUCE", "SGLANG_DISABLE_CUSTOM_ALLREDUCE"}
MarkerConditional == {"HF_HUB_TRUST_REMOTE_CODE"}

\* the precision-conditional variables of an environment: those that are
\* neither base, backend-conditional nor marker-conditional
PrecisionPart(environment) ==
    DOMAIN environment \ (BaseVariables \cup BackendConditional \cup MarkerConditional)

BackendPart(environment) == DOMAIN environment \cap BackendConditional

\* the environment generate_config gives the same recipe for another
\* precision or backend
EnvironmentFor(precision, backend) ==
    generate_config(request.recipe, request.gpu_count, precision, backend,
                    request.port).environment

\* exactly one backend-conditional variable, another one for the other backend
OneBackendVariable ==
    /\ Cardinality(BackendPart(deployment.environment)) = 1
    /\ \A b \in {"vllm", "sglang"} \ {request.backend} :
          BackendPart(EnvironmentFor(request.precision, b))
              # BackendPart(deployment.environment)

\* exactly one precision-conditional variable, unlike that of the precisions in others
OnePrecisionVariable(others) ==
    /\ Cardinality(PrecisionPart(deployment.environment)) = 1
    /\ \A q \in others \ {request.precision} :
          PrecisionPart(EnvironmentFor(q, request.backend))
              # PrecisionPart(deployment.environment)

\* C17 (as claimed): for each of fp16, bf16, fp8, int8 and int4 the
\* environment contains, besides the fixed base variables, exactly one
\* precision-conditional variable, different for each precision value, and
\* exactly one backend-conditional variable, distinct for vllm and sglang.
C17_Original ==
    Configured =>
        /\ BaseVariables \subseteq DOMAIN deployment.environment
        /\ OnePrecisionVariable({"fp16", "bf16", "fp8", "int8", "int4"})
        /\ OneBackendVariable

\* C17 (amended): for each of fp16, bf16 and fp8 the environment contains,
\* besides the fixed base variables, exactly one precision-conditional
\* variable, different for each of the three; for int8 and int4 it contains
\* no precision-conditional variable; and it contains exactly one
\* backend-conditional variable, distinct for vllm and sglang.
C17_ConditionalVariables ==
    Configured =>
        /\ BaseVariables \subseteq DOMAIN deployment.environment
        /\ IF request.precision \in {"fp16", "bf16", "fp8"}
           THEN OnePrecisionVariable({"fp16", "bf16", "fp8"})
           ELSE PrecisionPart(deployment.environment) = {}
        /\ OneBackendVariable

\* an fp8 configuration for sglang whose recipe mentions trust-remote-code
C17_Witness ==
    /\ Configured
    /\ request.precision = "fp8"
    /\ request.backend = "sglang"
    /\ PrecisionPart(deployment.environment) = {"VLLM_USE_FP8"}
    /\ BackendPart(deployment.environment) = {"SGLANG_DISABLE_CUSTOM_ALLREDUCE"}
    /\ "HF_HUB_TRUST_REMOTE_CODE" \in DOMAIN deployment.environment

----------------------------------------------------------------------------
(* C19 *)

\* C19: generate_config raises a configuration error, and returns no
\* configuration, whenever the (backend, gpu_count) slot it is asked to
\* synthesize is absent from the recipe or has enabled false.
C19_RaisesOnUnusableSlot ==
    (Generated /\ ~AskedSlotEnabled) =>
        (IsRaised(deployment) /\ deployment.raised = "ValueError")

\* generate_config raised for a slot that is present with enabled false
C19_Witness ==
    /\ Generated
    /\ AskedSlotPresent
    /\ "enabled" \in DOMAIN AskedSlot
    /\ AskedSlot.enabled = FALSE
    /\ request.backend = "vllm"
    /\ IsRaised(deployment)
    /\ deployment.why = "disabled"

----------------------------------------------------------------------------
(* C18, C20: the launch flow *)

\* launch_model has come to its end after a configuration was resolved
LaunchedResolved == pc = "launched" /\ result # None

\* the fixed pair of default cache bind-mounts
DefaultVolumes ==
    <<[host |-> "/tmp/.cache", container |-> "/tmp/.cache"],
      [host |-> "~/.cache/huggingface", container |-> "/root/.cache/huggingface"]>>

\* the read-only bind mount of a cached model
ModelVolume(model_id) ==
    [host |-> <<"/workspace/model-cache", "models", [dashed |-> model_id]>>,
     container |-> <<"/workspace/models", [dashed |-> model_id]>>,
     mode |-> "ro"]

\* C18: the final volume list handed to the launcher is the fixed pair of
\* default cache bind-mounts, plus a model-specific read-only bind mount if
\* and only if the cache collaborator reports the model as cached; when the
\* model is not cached, no volume beyond the default pair is added.
C18_VolumesHandedToLauncher ==
    LaunchedResolved =>
        /\ deployment.handed # None
        /\ deployment.handed.volumes =
              DefaultVolumes \o (IF deployment.cached
                                 THEN <<ModelVolume(request.model_id)>> ELSE <<>>)

\* C20: the synthesizer's absent/disabled-slot error is unreachable after a
\* successful resolution: in launch_model, whenever get_optimal_configuration
\* returns a configuration, the following generate_config call succeeds and
\* the flow proceeds to cache augmentation and container launch.
C20_GenerateSucceedsAfterResolve ==
    LaunchedResolved => (deployment.success /\ deployment.handed # None)

----------------------------------------------------------------------------
(* C21: invalid inputs are rejected before any probe or catalog access *)

\* the request the engine was called with is one the contract rejects
Malformed(r) ==
    \/ r.model_id \in {"", "model"}
    \/ r.customer_gpu_count # NoneGpu /\ r.customer_gpu_count \notin 1..8
    \/ r.customer_precision # NonePrecision
         /\ r.customer_precision \notin {"fp16", "bf16", "fp8", "int8", "int4"}
    \/ r.backend \notin {"vllm", "sglang"}

\* the engine's operation has ended with an error result and nothing was
\* probed, attempted or resolved on the way
RejectedUntouched ==
    /\ pc' \in {"launched", "answered"}
    /\ deployment'.success = FALSE
    /\ deployment'.error = "Invalid inputs"
    /\ probe' = NoProbe /\ candidate' = NoCandidate
    /\ attempted' = <<>> /\ result' = None

\* C21: a request with a model id lacking "/", a GPU count outside 1..8, a
\* precision outside {fp16, bf16, fp8, int8, int4} or a backend outside
\* {vllm, sglang} is rejected by launch_model and by the engine's
\* get_optimal_configuration with an error result before any GPU probe runs
\* and before any recipe is loaded: the step that takes such a request ends
\* the operation at once, and no probing or matching is ever under way for it.
C21_RejectedBeforeProbe ==
    /\ [](pc \in {"probing", "matching", "done"} => ~Malformed(request))
    /\ [][(pc = "idle" /\ Malformed(request')) => RejectedUntouched]_vars

\* both operations have rejected a request: here launch_model one with 9 GPUs
C21_Witness ==
    /\ pc = "launched"
    /\ request.customer_gpu_count = 9
    /\ request.model_id = KnownModel
    /\ request.customer_precision = "bf16" /\ request.backend = "vllm"
    /\ deployment.error = "Invalid inputs"

----------------------------------------------------------------------------
(* C22, C23: the detection tiers *)

\* the method reported a positive count
ReportsPositive(m) == m.raised = "" /\ m.returncode = 0 /\ m.count > 0

\* the method failed: the tool is missing, timed out or exited non-zero
MethodFailed(m) == m.raised # "" \/ m.returncode # 0

\* the names of the methods in each tier's ordered list
MethodNames ==
    [host |-> <<"rocm-smi", "nvidia-smi">>,
     container |-> <<"torch", "rocm-smi", "nvidia-smi">>,
     runtime |-> <<"python", "torch", "rocm-smi", "nvidia-smi">>]

\* the positions of the methods of the list that report a positive count
PositivePositions(methods) == { i \in 1..Len(methods) : ReportsPositive(methods[i]) }

\* the smallest of a non-empty set of positions
FirstPosition(S) == CHOOSE i \in S : \A j \in S : i <= j

\* the count derived from the visibility variable, or 1 if it is unset
VisibilityCount(env) ==
    IF ~env.set THEN 1
    ELSE IF Len(env.devices) = 0 THEN 1
    ELSE Len(env.devices)

\* what the tier is to return on these methods and this environment
TierCount(methods, env) ==
    IF PositivePositions(methods) # {}
    THEN methods[FirstPosition(PositivePositions(methods))].count
    ELSE VisibilityCount(env)

\* C22: for each of the three detection tiers (runtime, container, host), the
\* count returned is the count of the first method in the tier's ordered list
\* that reports a positive count; a method that reports zero is passed over,
\* and if no method reports a positive count the tier returns the count
\* derived from the visibility environment variable, or 1 if it is unset, so
\* every tier's result is >= 1.
C22_FirstPositiveMethodWins ==
    pc = "detected" =>
        /\ probe.count = TierCount(probe.methods, probe.env)
        /\ probe.count >= 1

\* the named method of the tier was run
WasTried(name) == \E i \in 1..Len(probe.tried) : probe.tried[i] = name

\* C23: when an individual detection method of a tier fails (the external
\* tool is missing, times out or exits non-zero), the failure is never
\* propagated to the caller of the probe and the next method in that tier's
\* ordered list is still tried before the final fallback is used.
C23_NextMethodStillTried ==
    pc = "detected" =>
        /\ probe.count \in Nat
        /\ \A i \in 1..(Len(probe.methods) - 1) :
              (WasTried(MethodNames[probe.tier][i]) /\ MethodFailed(probe.methods[i]))
                  => WasTried(MethodNames[probe.tier][i + 1])

----------------------------------------------------------------------------
(* C24: the command converter *)

\* the key as the command line shows it: with "--" before it unless it is
\* written with "--" already
ShownFlag(key) == IF key.dashes >= 2 THEN key ELSE [key EXCEPT !.dashes = @ + 2]

\* the key is one of the enumerated boolean flags
IsBooleanKey(key) == ShownFlag(key).dashes = 2 /\ ShownFlag(key).name \in boolean_flag_names

\* the value as Python prints it
Printed(value) ==
    IF value.kind = "bool" THEN (IF value.bool THEN <<"T", "r", "u", "e">>
                                               ELSE <<"F", "a", "l", "s", "e">>)
    ELSE IF value.kind = "int"
    THEN (IF value.int = 0 THEN <<"0">> ELSE IF value.int = 1 THEN <<"1">>
          ELSE <<"8", "0", "0", "0">>)
    ELSE value.text

\* the printed value, trimmed and lower-cased, is one of "true", "1", "yes"
Truthy(value) ==
    Printed(value) \in
        { <<"T", "r", "u", "e">>, <<"t", "r", "u", "e">>, <<"1">>,
          <<" ", "Y", "E", "S", " ">> }

\* what the claim has the entry i of the args contribute
Contribution(arg) ==
    IF IsBooleanKey(arg.key)
    THEN (IF Truthy(arg.value)
          THEN <<[flag |-> ShownFlag(arg.key), bare |-> TRUE, value |-> <<>>]>>
          ELSE <<>>)
    ELSE <<[flag |-> ShownFlag(arg.key), bare |-> FALSE, value |-> Printed(arg.value)]>>

RECURSIVE Contributions(_)
Contributions(args) ==
    IF Len(args) = 0 THEN <<>> ELSE Contribution(Head(args)) \o Contributions(Tail(args))

\* C24: convert_args_to_command_line emits a key of its enumerated
\* boolean-flag set as a bare --flag when the value, trimmed and lower-cased,
\* is one of "true", "1", "yes", omits it entirely for any other value, and
\* emits every key outside that set as "--key value", preserving the order of
\* the args map.
C24_ConverterEmission ==
    pc = "converted" => deployment.args_list = Contributions(deployment.args)

\* a boolean flag with " YES " before a valued key, and both are emitted
C24_Witness ==
    /\ pc = "converted"
    /\ Len(deployment.args) = 2
    /\ deployment.args[1] = Arg(Key(0, "enable-prefix-caching"), PyStr(<<" ", "Y", "E", "S", " ">>))
    /\ deployment.args[2].key = Key(0, "port")
    /\ Len(deployment.args_list) = 2
    /\ deployment.args_list[1].bare

----------------------------------------------------------------------------
(* C25: the readiness polling loops *)

\* a polling loop is under way / has returned
Polling == pc \in {"container_polling", "endpoint_polling"}
Waited == pc \in {"container_waited", "endpoint_waited"}

\* the loop's deadline has elapsed
DeadlineElapsed == clock - wait.start_time >= wait.timeout

\* the time between two tests of a loop: the poll, then five seconds
TurnTimes == { 5 + d : d \in PollDurations }

\* C25: the readiness polling loops _wait_for_container_ready and
\* _wait_for_endpoint_ready always terminate: each returns True at the first
\* poll that observes readiness and returns False once its overall deadline
\* has elapsed without such an observation, polling at a fixed 5-second
\* interval in between.
C25_PollingTerminates ==
    /\ Polling ~> Waited
    /\ [](Waited => /\ wait.ready <=> wait.observed
                    /\ ~wait.ready => DeadlineElapsed)
    /\ [][Polling => /\ wait'.observed => (Waited' /\ wait'.ready)
                     /\ Polling' => (clock' - clock) \in TurnTimes]_vars

\* the endpoint loop has given up at its deadline of 600 seconds
C25_Witness ==
    /\ pc = "endpoint_waited"
    /\ ~wait.ready
    /\ clock - wait.start_time >= 600

----------------------------------------------------------------------------
(* C27: launch_container *)

\* launch_container has come to its return
ContainerReturned == pc = "container_returned"

\* C27: launch_container returns success = True only after a readiness poll
\* has observed the container as Up; if docker run succeeds but readiness is
\* not observed before the timeout, it issues stop_container for that
\* container name and returns success = False, and if docker run itself
\* fails no readiness poll and no stop is issued.
C27_SuccessOnlyAfterUp ==
    ContainerReturned =>
        /\ docker.returned.success =>
              (docker.run = "ok" /\ docker.polled /\ wait.observed /\ docker.stops = <<>>)
        /\ (docker.run = "ok" /\ ~wait.observed) =>
              /\ DeadlineElapsed
              /\ docker.stops = <<docker.container_name>>
              /\ ~docker.returned.success
        /\ docker.run = "failed" =>
              (~docker.polled /\ docker.stops = <<>> /\ ~docker.returned.success)

\* docker run succeeded, the container never came up, and it was stopped
C27_Witness ==
    /\ ContainerReturned
    /\ docker.run = "ok"
    /\ docker.polled
    /\ docker.stops = <<"aim-b">>
    /\ ~docker.returned.success

----------------------------------------------------------------------------
(* C28: the endpoint registry *)

Registered == DOMAIN endpoints

\* the step is the return of the named operation of the endpoint manager
Returns(operation) ==
    /\ endpoint_call.returned = None
    /\ endpoint_call'.returned # None
    /\ endpoint_call'.operation = operation

\* the step is a start_endpoint that succeeds
StartSucceeds == Returns("start_endpoint") /\ endpoint_call'.returned.success

\* what the step is to leave registered
RegisteredAfter ==
    IF StartSucceeds THEN Registered \cup {endpoint_call'.container_id}
    ELSE IF Returns("cleanup_endpoints") THEN {}
    ELSE Registered

\* what stop_endpoint is to do with the id it is given
StopMarksOnly(id) ==
    IF id \in Registered
    THEN /\ endpoint_call'.returned.success
         /\ endpoints'[id] = [endpoints[id] EXCEPT !.status = "stopped"]
         /\ \A other \in Registered \ {id} : endpoints'[other] = endpoints[other]
    ELSE /\ ~endpoint_call'.returned.success
         /\ endpoints' = endpoints

\* C28: after any sequence of start_endpoint, stop_endpoint and
\* cleanup_endpoints calls on one AIMEndpointManager, the registry contains
\* exactly the container ids whose start_endpoint succeeded (endpoint observed
\* ready) since the last cleanup_endpoints; stop_endpoint only marks a
\* registered entry's status as stopped and never removes it, stop_endpoint on
\* an unregistered id returns failure leaving the registry unchanged, and
\* list_endpoints().count equals the registry size.  Every step keeps this:
\* the registry gains the id of a start that succeeds, is emptied by a
\* cleanup, and keeps its ids otherwise.
C28_RegistryTracksStarts ==
    [][/\ Registered' = RegisteredAfter
       /\ StartSucceeds <=> (Returns("start_endpoint") /\ wait.ready)
       /\ Returns("stop_endpoint") => StopMarksOnly(endpoint_call'.container_id)
       /\ Returns("list_endpoints") =>
             endpoint_call'.returned.count = Cardinality(Registered')]_vars

\* c1 was started and stopped, c2 was started, and list_endpoints counts two
C28_Witness ==
    /\ pc = "endpoint_returned"
    /\ endpoint_call.operation = "list_endpoints"
    /\ endpoint_call.returned.count = 2
    /\ endpoints["c1"].status = "stopped"
    /\ endpoints["c2"].status = "running"

----------------------------------------------------------------------------
(* C26: the returned configuration describes one recipe *)

\* the recipe files that carry the returned recipe_id
Identified == { r \in Range(recipe_files) : r.recipe_id = result.recipe_id }

\* the recipe's slot at (backend, gpu_count) is the returned config
ConfigIsSlotOf(r) ==
    /\ result.backend \in DOMAIN r.serve
    /\ result.gpu_count \in DOMAIN r.serve[result.backend]
    /\ result.config = r.serve[result.backend][result.gpu_count]

\* C26: in every configuration returned by get_optimal_configuration, the
\* returned precision equals the precision field of the recipe identified by
\* the returned recipe_id, and the returned config is that recipe's slot at
\* (returned backend, returned gpu_count).
C26_ConfigurationOfOneRecipe ==
    (Done /\ result # None) =>
        /\ Identified # {}
        /\ \A r \in Identified : result.precision = r.precision /\ ConfigIsSlotOf(r)

----------------------------------------------------------------------------
(* C29: the cache manager's frame *)

\* the step is a call of add_model_to_cache or remove_model_from_cache on m
CacheCallOn(m) == pc = "idle" /\ pc' = "cache_returned" /\ cache'.call.model_id = m

\* the model is reported cached before the step exactly if it is after it
SameCachedStatus(other) == is_model_cached(cache', other) <=> is_model_cached(cache, other)

\* C29: add_model_to_cache(m) and remove_model_from_cache(m) on an
\* AIMCacheManager change the cached status of m only: for every other model
\* id m', is_model_cached(m') has the same value before and after the call,
\* for any pair of distinct model ids.
C29_FrameOfCacheCalls ==
    [][\A m \in CacheModelIds : CacheCallOn(m) =>
            \A other \in CacheModelIds \ {m} : SameCachedStatus(other)]_vars

----------------------------------------------------------------------------
(* C30: the constructor of the engine *)

\* the constructor has run to its end or to an exception
Constructed == pc \notin {"unbuilt"}

\* C30: constructing AIMEngine completes without raising and leaves
\* cache_enabled = True whenever the cache manager module can be imported and
\* instantiated (Docker being available), and leaves cache_enabled = False
\* with cache_manager = None only when the import fails; no step of the
\* constructor uses the engine's logger before it has been assigned.
C30_ConstructorCompletes ==
    Constructed =>
        /\ (engine.docker_available /\ engine.cache_importable /\ engine.cache_instantiable)
              => (engine.raised = "" /\ engine.cache_enabled)
        /\ (engine.raised = "" /\ ~engine.cache_enabled /\ ~engine.cache_manager)
              => ~engine.cache_importable
        /\ ~engine.premature_logger_use

====
